---- MODULE Spec2Model ----
(***************************************************************************)
(* Model of the lookup-and-classification engine of the Component Data     *)
(* Processor: LookupProcessor.perform_lookup, process_lookup_results,      *)
(* validate_master_bom (src/src/data_handlers/lookup_processor.py) and the  *)
(* call sequence of ComponentDataProcessor._process_lookup.                 *)
(*                                                                         *)
(* A DataFrame is a record [cols, rows]: cols is the ordered list of column *)
(* names, rows the ordered list of rows, each row a function from the       *)
(* column names to cell values.  Cell values are strings; the pandas        *)
(* missing value is the distinguished value NaN.  DataFrame objects live in *)
(* the heap `frames`, so that in-place mutation and aliasing are visible.   *)
(***************************************************************************)
EXTENDS Integers, Sequences, FiniteSets, TLC

\* ------------------------------------------------------------------------
\* Bounds of the model
\* ------------------------------------------------------------------------
MaxInput == 2
MaxCatalog == 2

\* ------------------------------------------------------------------------
\* Values
\* ------------------------------------------------------------------------
\* np.nan, the missing cell value
NaN == "<NaN>"
\* Python None, the default of the project_column argument
None == "<None>"

pd_isna(v) == v = NaN

\* astype(str) / str(): a missing value prints as 'nan', a string is itself
astype_str(v) == IF pd_isna(v) THEN "nan" ELSE v

\* str.upper() on the strings of the model
str_upper(s) ==
    CASE s = "d" -> "D"
      [] s = "x" -> "X"
      [] s = "a" -> "A"
      [] s = "nan" -> "NAN"
      [] s = "weird" -> "WEIRD"
      [] s = "r1" -> "R1"
      [] s = "c 2" -> "C 2"
      [] OTHER -> s

\* mutant of fillna: a null value is kept
fillna_keeping(v, value) == v

\* fillna(value)
fillna(v, value) == IF pd_isna(v) THEN value ELSE v

\* ------------------------------------------------------------------------
\* DataFrames
\* ------------------------------------------------------------------------
ColSet(t) == {t.cols[i] : i \in DOMAIN t.cols}

HasCol(t, c) == c \in ColSet(t)

NRows(t) == Len(t.rows)

\* df[c] = vals : overwrite the column in place, or append it as last column
SetColumn(t, c, vals) ==
    [cols |-> IF HasCol(t, c) THEN t.cols ELSE Append(t.cols, c),
     rows |-> [i \in DOMAIN t.rows |->
                 [x \in ColSet(t) \cup {c} |->
                     IF x = c THEN vals[i] ELSE t.rows[i][x]]]]

\* df.insert(pos, c, vals) for a column that is not yet in df
InsertColumn(t, pos, c, vals) ==
    [cols |-> SubSeq(t.cols, 1, pos) \o <<c>> \o SubSeq(t.cols, pos + 1, Len(t.cols)),
     rows |-> [i \in DOMAIN t.rows |->
                 [x \in ColSet(t) \cup {c} |->
                     IF x = c THEN vals[i] ELSE t.rows[i][x]]]]

\* df.at[idx, c] = v
SetCell(t, idx, c, v) ==
    [t EXCEPT !.rows[idx] = [x \in ColSet(t) |-> IF x = c THEN v ELSE t.rows[idx][x]]]

Min(a, b) == IF a < b THEN a ELSE b

\* ------------------------------------------------------------------------
\* LookupProcessor state
\* ------------------------------------------------------------------------
VARIABLES
    frames,             \* heap of DataFrame objects: object id -> DataFrame
    project_column,     \* argument the caller gives to perform_lookup
    pc,                 \* where the caller's run stands
    error,              \* exception that ended the run, or None
    lookup_df,          \* id of the object perform_lookup returned, or None
    processed_df,       \* id of the table process_lookup_results returned
    updated_master_bom, \* id of the catalog process_lookup_results returned
    processing_stats,   \* self.processing_stats
    additional_rows,    \* self.additional_rows
    validation,         \* result of validate_master_bom, or the empty record
    master_before,      \* the caller's catalog as it was before the run
    master_df,          \* catalog given to the EnhancedLookupProcessor methods
    project_hint,       \* input_name / project_hint argument, a string
    candidates,         \* columns argument of suggest_column
    suggestion,         \* (column, confidence) returned, once done
    analysis,           \* columns_analysis returned, once done
    available_columns,  \* available_columns argument of the ColumnMapper
    column_type,        \* column_type argument of find_column_match
    column_match,       \* what find_column_match returned, once done
    dirty_df,           \* df argument of DataCleaner.clean_dataframe
    cleaned_df,         \* the table clean_dataframe returned
    cleaning_stats,     \* self.cleaning_stats of the DataCleaner
    excluded_rows,      \* self.excluded_rows of the DataCleaner
    input_file,         \* the sheet process_file reads: headers and rows
    column_check,       \* what validate_required_columns returned, once done
    written_tables,     \* the tables handed to the ExcelHandler writers
    process_result,     \* what process_file returned, once it has
    run_number,         \* how many runs the LookupProcessor instance has begun
    previous_stats,     \* get_processing_statistics() read after the last run
    runs                \* the tables of the runs that share the instance

\* the state of a LookupProcessor run
lookup_vars == <<frames, project_column, pc, error, lookup_df, processed_df,
                 updated_master_bom, processing_stats, additional_rows, validation,
                 master_before>>

\* the arguments and results of the EnhancedLookupProcessor's static methods
enhanced_vars == <<master_df, project_hint, candidates, suggestion, analysis>>

\* the arguments and the result of a ColumnMapper call
mapper_vars == <<available_columns, column_type, column_match>>

\* the state of the collaborators of the LookupProcessor
\* the arguments, the result and the state of the DataCleaner
cleaner_vars == <<dirty_df, cleaned_df, cleaning_stats, excluded_rows>>

\* the state of a run of ComponentDataProcessor.process_file
pipeline_vars == <<input_file, column_check, written_tables, process_result>>

\* the runs of one LookupProcessor instance, as its caller sees them
runs_vars == <<run_number, previous_stats, runs>>

extension_vars == <<mapper_vars, cleaner_vars, pipeline_vars, runs_vars>>

vars == <<lookup_vars, enhanced_vars, extension_vars>>

\* no EnhancedLookupProcessor method is called in a LookupProcessor run
EnhancedIdle ==
    /\ master_df = [cols |-> <<>>, rows |-> <<>>]
    /\ project_hint = <<>>
    /\ candidates = <<>>
    /\ suggestion = [done |-> FALSE]
    /\ analysis = [done |-> FALSE]

\* no ColumnMapper method is called
MapperIdle ==
    /\ available_columns = <<>>
    /\ column_type = ""
    /\ column_match = [done |-> FALSE]

\* self.cleaning_stats as set in DataCleaner.__init__
ZeroCleaningStats ==
    [original_rows |-> 0, cleaned_rows |-> 0, excluded_rows |-> 0,
     normalized_values |-> 0, trimmed_values |-> 0, case_corrections |-> 0]

\* a fresh DataCleaner, not called
CleanerIdle ==
    /\ dirty_df = [cols |-> <<>>, rows |-> <<>>]
    /\ cleaned_df = [cols |-> <<>>, rows |-> <<>>]
    /\ cleaning_stats = ZeroCleaningStats
    /\ excluded_rows = <<>>

\* process_file is not called
PipelineIdle ==
    /\ input_file = [headers |-> <<>>, rows |-> <<>>]
    /\ column_check = [done |-> FALSE]
    /\ written_tables = <<>>
    /\ process_result = "idle"


\* self.processing_stats as set in __init__ and by _reset_stats
ZeroStats ==
    [total_processed |-> 0, status_d_updates |-> 0, status_0_duplicates |-> 0,
     status_nan_unknowns |-> 0, status_x_skipped |-> 0,
     lookup_matches |-> 0, lookup_misses |-> 0]

\* mutant of _reset_stats: the counters are left as they are
reset_stats_keeping(stats) == stats

\* _reset_stats: every counter of self.processing_stats is set to 0
reset_stats(stats) == [key \in DOMAIN stats |-> 0]

\* the instance is in its first run, and no other run shares it
RunsIdle ==
    /\ run_number = 1
    /\ previous_stats = ZeroStats
    /\ runs = <<>>

\* no collaborator of the LookupProcessor is at work
ExtensionIdle ==
    /\ MapperIdle
    /\ CleanerIdle
    /\ PipelineIdle
    /\ RunsIdle

\* ------------------------------------------------------------------------
\* perform_lookup
\* ------------------------------------------------------------------------
\* 'project' in col.lower() or 'ford' in col.lower(), on the column names
\* that occur in the model
contains_project_or_ford(col) ==
    col \in {"Project", "Project_Name", "FORD_J74_V710_B2_PP_YOTK"}

\* project_column if project_column else 'Project'
requested_column(pcol) == IF pcol # None THEN pcol ELSE "Project"

\* the catalog column that enters the composite key
resolve_master_project_col(master_bom, pcol) ==
    LET requested == requested_column(pcol)
        available_cols == SelectSeq(master_bom.cols, contains_project_or_ford)
    IN  IF HasCol(master_bom, requested) THEN requested
        ELSE IF available_cols # <<>> THEN available_cols[1]
        ELSE "Project"

\* the catalog column that is returned as Status: the column asked for,
\* before it is resolved against the catalog
resolve_lookup_col(master_bom, pcol) == requested_column(pcol)

\* the catalog's part-number column
resolve_master_pn_col(master_bom) ==
    LET pn_columns == <<"Yazaki PN", "YAZAKI PN", "yazaki pn">>
        present == SelectSeq(pn_columns, LAMBDA c : HasCol(master_bom, c))
    IN  IF HasCol(master_bom, "PN") THEN "PN"
        ELSE IF present # <<>> THEN present[1]
        ELSE "PN"

\* a.astype(str) + '|' + b.astype(str)
composite_key(pn, project) == astype_str(pn) \o "|" \o astype_str(project)

\* drop_duplicates(subset=['lookup_key'], keep='first'): the positions kept
drop_duplicates(keys) ==
    SelectSeq([i \in DOMAIN keys |-> i],
              LAMBDA i : \A j \in 1..(i - 1) : keys[j] # keys[i])

\* pd.Series(values, index=keys).to_dict() over the kept positions: a later
\* entry of the same key replaces an earlier one
to_dict(keys, values, kept) ==
    [k \in {keys[kept[n]] : n \in DOMAIN kept} |->
        LET last == CHOOSE n \in DOMAIN kept :
                       /\ keys[kept[n]] = k
                       /\ \A m \in DOMAIN kept : keys[kept[m]] = k => m <= n
        IN  values[kept[last]]]

\* mutant of series_map: a key that is not in the dict maps to "0"
series_map_defaulting(keys, dict) ==
    [i \in DOMAIN keys |-> IF keys[i] \in DOMAIN dict THEN dict[keys[i]] ELSE "0"]

\* Series.map(dict): a key that is not in the dict maps to NaN
series_map(keys, dict) ==
    [i \in DOMAIN keys |-> IF keys[i] \in DOMAIN dict THEN dict[keys[i]] ELSE NaN]

Raise(e) == [ok |-> FALSE, err |-> e]

\* df['Notes'] = ''; df['Action'] = ''
add_processing_columns(df) ==
    SetColumn(SetColumn(df, "Notes", [i \in DOMAIN df.rows |-> ""]),
              "Action", [i \in DOMAIN df.rows |-> ""])

\* the optional pass-through of one catalog column (Price, Supplier, Description)
add_master_column(result_df, master_bom, col, input_key, master_key, kept) ==
    IF HasCol(master_bom, col) /\ ~HasCol(result_df, col)
    THEN LET col_values == [i \in DOMAIN master_bom.rows |->
                               fillna(master_bom.rows[i][col], "")]
             col_dict == to_dict(master_key, col_values, kept)
         IN  SetColumn(result_df, col, series_map(input_key, col_dict))
    ELSE result_df

\* The value perform_lookup computes: the result table and the two counters,
\* or the exception it raises.
perform_lookup(input_df, master_bom, pcol) ==
    LET lookup_col == resolve_lookup_col(master_bom, pcol)
        master_project_col == resolve_master_project_col(master_bom, pcol)
        master_pn_col == resolve_master_pn_col(master_bom)
    IN  IF ~HasCol(input_df, "PN") THEN Raise("KeyError: 'PN'")
        ELSE IF ~HasCol(input_df, "Project") THEN Raise("KeyError: 'Project'")
        ELSE IF ~HasCol(master_bom, master_pn_col) THEN Raise("KeyError: 'PN'")
        ELSE IF ~HasCol(master_bom, master_project_col)
             THEN Raise("KeyError: 'Project'")
        ELSE IF ~HasCol(master_bom, lookup_col) THEN Raise("KeyError: lookup_col")
        ELSE
        LET input_lookup_key ==
                [i \in DOMAIN input_df.rows |->
                    composite_key(input_df.rows[i]["PN"], input_df.rows[i]["Project"])]
            master_lookup_key ==
                [i \in DOMAIN master_bom.rows |->
                    composite_key(master_bom.rows[i][master_pn_col],
                                  master_bom.rows[i][master_project_col])]
            kept == drop_duplicates(master_lookup_key)
            lookup_series == [i \in DOMAIN master_bom.rows |->
                                 fillna(master_bom.rows[i][lookup_col], "0")]
            lookup_dict == to_dict(master_lookup_key, lookup_series, kept)
            status_mapping == series_map(input_lookup_key, lookup_dict)
            with_status ==
                IF HasCol(input_df, "Status")
                THEN SetColumn(input_df, "Status", status_mapping)
                ELSE InsertColumn(input_df, Min(2, Len(input_df.cols)), "Status",
                                  status_mapping)
            with_price == add_master_column(with_status, master_bom, "Price",
                              input_lookup_key, master_lookup_key, kept)
            with_supplier == add_master_column(with_price, master_bom, "Supplier",
                              input_lookup_key, master_lookup_key, kept)
            with_description == add_master_column(with_supplier, master_bom,
                              "Description", input_lookup_key, master_lookup_key, kept)
            with_key == SetColumn(with_description, "lookup_key", input_lookup_key)
        IN  [ok |-> TRUE,
             df |-> add_processing_columns(with_key),
             lookup_matches |->
                 Cardinality({i \in DOMAIN status_mapping : ~pd_isna(status_mapping[i])}),
             lookup_misses |->
                 Cardinality({i \in DOMAIN status_mapping : pd_isna(status_mapping[i])})]

\* ------------------------------------------------------------------------
\* process_lookup_results
\* ------------------------------------------------------------------------
\* The state the row loop works on: the lookup table df and the catalog
\* master_bom (both mutated in place), the counters, the synthetic rows, and
\* the exception that stopped the loop (None while it runs).
LoopState(df, master_bom, stats, rows) ==
    [df |-> df, master_bom |-> master_bom, stats |-> stats,
     additional_rows |-> rows, err |-> None]

\* mutant of set_status_x: the mask is dropped, every catalog row is rewritten
set_status_x_everywhere(master_bom, mask) ==
    SetColumn(master_bom, "Status", [i \in DOMAIN master_bom.rows |-> "X"])

\* master_bom.loc[mask, 'Status'] = 'X' (creates the column when it is absent)
set_status_x(master_bom, mask) ==
    SetColumn(master_bom, "Status",
        [i \in DOMAIN master_bom.rows |->
            IF mask[i] THEN "X"
            ELSE IF HasCol(master_bom, "Status") THEN master_bom.rows[i]["Status"]
            ELSE NaN])

\* _handle_status_d
handle_status_d(st, idx, row) ==
    IF ~HasCol(st.df, "lookup_key") \/ ~HasCol(st.master_bom, "lookup_key")
    THEN [st EXCEPT !.err = "KeyError: 'lookup_key'"]
    ELSE LET lookup_key == row["lookup_key"]
             mask == [i \in DOMAIN st.master_bom.rows |->
                         st.master_bom.rows[i]["lookup_key"] = lookup_key]
         IN  IF \E i \in DOMAIN mask : mask[i]
             THEN [st EXCEPT
                     !.master_bom = set_status_x(st.master_bom, mask),
                     !.df = SetCell(SetCell(st.df, idx, "Notes",
                                            "Status D mis a jour vers X"),
                                    idx, "Action", "Updated"),
                     !.stats.status_d_updates = @ + 1]
             ELSE st

\* mutant of new_row: the synthetic row copies the Price of the row
new_row_copying_price(row, notes, action, status) ==
    [PN |-> row["PN"], Project |-> row["Project"], Price |-> row["Price"],
     Description |-> "", Supplier |-> "", Notes |-> notes, Action |-> action,
     Status |-> status, lookup_key |-> row["lookup_key"]]

\* the synthetic row of _handle_status_0 / _handle_status_nan
new_row(row, notes, action, status) ==
    [PN |-> row["PN"], Project |-> row["Project"], Price |-> "",
     Description |-> "", Supplier |-> "", Notes |-> notes, Action |-> action,
     Status |-> status, lookup_key |-> row["lookup_key"]]

\* _handle_status_0
handle_status_0(st, row) ==
    [st EXCEPT
        !.additional_rows = Append(@, new_row(row,
            "Doublon ou correspondance incertaine - verification manuelle necessaire",
            "Duplicate_Added", "0")),
        !.stats.status_0_duplicates = @ + 1]

\* _handle_status_nan
handle_status_nan(st, row) ==
    [st EXCEPT
        !.additional_rows = Append(@, new_row(row,
            "PN inconnu - entree potentiellement nouvelle", "Unknown_Added", NaN)),
        !.stats.status_nan_unknowns = @ + 1]

\* mutant of handle_status_x: the branch raises instead of tagging the row
handle_status_x_raising(st, idx) == [st EXCEPT !.err = "KeyError: 'Notes'"]

\* mutant of handle_status_x: the row is tagged and not counted
handle_status_x_uncounted(st, idx) ==
    [st EXCEPT
        !.df = SetCell(SetCell(st.df, idx, "Notes",
                               "Composant deja marque comme ancien - ignore"),
                       idx, "Action", "Skipped")]

\* _handle_status_x
handle_status_x(st, idx) ==
    [st EXCEPT
        !.df = SetCell(SetCell(st.df, idx, "Notes",
                               "Composant deja marque comme ancien - ignore"),
                       idx, "Action", "Skipped"),
        !.stats.status_x_skipped = @ + 1]

\* _handle_other_status
handle_other_status(st, idx, status) ==
    IF str_upper(astype_str(status)) = "A"
    THEN [st EXCEPT !.df = SetCell(SetCell(st.df, idx, "Notes",
                                    "Composant actif - aucune action requise"),
                                   idx, "Action", "No_Action")]
    ELSE [st EXCEPT !.df = SetCell(SetCell(st.df, idx, "Notes",
                                    "Statut non reconnu: " \o astype_str(status)),
                                   idx, "Action", "Unknown_Status")]

\* mutant of Branch: the status "0" has no branch of its own
Branch_without_duplicate(status) ==
    IF pd_isna(status) THEN "Unknown"
    ELSE IF str_upper(astype_str(status)) = "D" THEN "Deprecated"
    ELSE IF str_upper(astype_str(status)) = "X" THEN "Obsolete"
    ELSE "Other"

\* the branch _process_single_row takes for a status value
Branch(status) ==
    IF pd_isna(status) THEN "Unknown"
    ELSE IF str_upper(astype_str(status)) = "D" THEN "Deprecated"
    ELSE IF astype_str(status) = "0" THEN "Duplicate"
    ELSE IF str_upper(astype_str(status)) = "X" THEN "Obsolete"
    ELSE "Other"

\* _process_single_row; row is the row as iterrows handed it out
process_single_row(st, idx, row) ==
    LET status == IF "Status" \in DOMAIN row THEN row["Status"] ELSE NaN
        counted == [st EXCEPT !.stats.total_processed = @ + 1]
        branch == Branch(status)
    IN  CASE branch = "Unknown" -> handle_status_nan(counted, row)
          [] branch = "Deprecated" -> handle_status_d(counted, idx, row)
          [] branch = "Duplicate" -> handle_status_0(counted, row)
          [] branch = "Obsolete" -> handle_status_x(counted, idx)
          [] OTHER -> handle_other_status(counted, idx, status)

\* for idx, row in df.iterrows(): the loop from row idx on; an exception
\* leaves the loop with everything done so far in place
RECURSIVE process_rows(_, _)
process_rows(st, idx) ==
    IF idx > NRows(st.df) \/ st.err # None THEN st
    ELSE process_rows(process_single_row(st, idx, st.df.rows[idx]), idx + 1)

\* the columns of pd.DataFrame(self.additional_rows)
AdditionalCols ==
    <<"PN", "Project", "Price", "Description", "Supplier", "Notes", "Action",
      "Status", "lookup_key">>

\* mutant of concat: synthetic rows that repeat an earlier one are dropped
concat_dropping_repeats(df, rows) ==
    LET uniq == SelectSeq([k \in DOMAIN rows |-> k],
                          LAMBDA k : \A m \in 1..(k - 1) : rows[m] # rows[k])
        all_cols == ColSet(df) \cup {AdditionalCols[i] : i \in DOMAIN AdditionalCols}
    IN  [cols |-> df.cols \o SelectSeq(AdditionalCols, LAMBDA c : ~HasCol(df, c)),
         rows |-> [i \in DOMAIN df.rows |->
                      [c \in all_cols |->
                          IF c \in ColSet(df) THEN df.rows[i][c] ELSE NaN]]
                  \o
                  [k \in DOMAIN uniq |->
                      [c \in all_cols |->
                          IF c \in DOMAIN rows[uniq[k]] THEN rows[uniq[k]][c] ELSE NaN]]]

\* mutant of concat: the synthetic rows are appended last to first
concat_reversing(df, rows) ==
    LET all_cols == ColSet(df) \cup {AdditionalCols[i] : i \in DOMAIN AdditionalCols}
    IN  [cols |-> df.cols \o SelectSeq(AdditionalCols, LAMBDA c : ~HasCol(df, c)),
         rows |-> [i \in DOMAIN df.rows |->
                      [c \in all_cols |->
                          IF c \in ColSet(df) THEN df.rows[i][c] ELSE NaN]]
                  \o
                  [i \in DOMAIN rows |->
                      [c \in all_cols |->
                          IF c \in DOMAIN rows[Len(rows) + 1 - i]
                          THEN rows[Len(rows) + 1 - i][c] ELSE NaN]]]

\* pd.concat([df, pd.DataFrame(additional_rows)], ignore_index=True): the
\* union of the columns, a cell that a table has no column for is NaN
concat(df, rows) ==
    LET new_cols == SelectSeq(AdditionalCols, LAMBDA c : ~HasCol(df, c))
        all_cols == ColSet(df) \cup {AdditionalCols[i] : i \in DOMAIN AdditionalCols}
    IN  [cols |-> df.cols \o new_cols,
         rows |-> [i \in DOMAIN df.rows |->
                      [c \in all_cols |->
                          IF c \in ColSet(df) THEN df.rows[i][c] ELSE NaN]]
                  \o
                  [i \in DOMAIN rows |->
                      [c \in all_cols |->
                          IF c \in DOMAIN rows[i] THEN rows[i][c] ELSE NaN]]]

\* The value process_lookup_results computes from the lookup table and the
\* catalog it is given: the loop state after the last row (or at the
\* exception), and the table it returns.
process_lookup_results(df, master_bom, stats) ==
    LET st == process_rows(LoopState(df, master_bom, stats, <<>>), 1)
    IN  [st |-> st,
         concatenated |-> st.err = None /\ st.additional_rows # <<>>,
         result |-> IF st.additional_rows # <<>>
                    THEN concat(st.df, st.additional_rows)
                    ELSE st.df]

\* mutant of update_target: the rewrite goes to a copy of the argument
update_target_copy(master_id) == "master_copy"

\* the catalog object _handle_status_d writes to and process_lookup_results
\* returns: the argument itself
update_target(master_id) == master_id

\* ------------------------------------------------------------------------
\* validate_master_bom
\* ------------------------------------------------------------------------
\* set(master_bom[col].dropna().astype(str).unique())
col_values(master_bom, col) ==
    {astype_str(master_bom.rows[i][col]) :
        i \in {j \in DOMAIN master_bom.rows : ~pd_isna(master_bom.rows[j][col])}}

\* mutant of structure_errors: the first column is scanned like the others
structure_errors_scanning_first(master_bom) ==
    LET pn_columns == {"PN", "Yazaki PN", "YAZAKI PN", "yazaki pn"}
        status_values == {"A", "D", "X", "0"}
        project_columns ==
            SelectSeq(master_bom.cols,
                LAMBDA c : /\ c \notin pn_columns
                           /\ \E i \in DOMAIN master_bom.rows :
                                 master_bom.rows[i][c] \in status_values)
    IN  (IF ColSet(master_bom) \cap pn_columns = {}
         THEN <<"Aucune colonne PN trouvee">> ELSE <<>>)
        \o (IF project_columns = <<>>
            THEN <<"Aucune colonne de projet avec statuts (A, D, X, 0) trouvee">>
            ELSE <<>>)

\* the errors validate_master_bom collects for a catalog that is not empty
structure_errors(master_bom) ==
    LET pn_columns == {"PN", "Yazaki PN", "YAZAKI PN", "yazaki pn"}
        status_values == {"A", "D", "X", "0"}
        tail_cols == SubSeq(master_bom.cols, 2, Len(master_bom.cols))
        project_columns ==
            SelectSeq(tail_cols,
                LAMBDA c : /\ c \notin pn_columns
                           /\ status_values \cap col_values(master_bom, c) # {})
        pn_errors == IF ColSet(master_bom) \cap pn_columns = {}
                     THEN <<"Aucune colonne PN trouvee">> ELSE <<>>
        project_errors == IF project_columns = <<>>
                          THEN <<"Aucune colonne de projet avec statuts (A, D, X, 0) trouvee">>
                          ELSE <<>>
    IN  pn_errors \o project_errors

\* master_bom.empty: no row or no column
is_empty(master_bom) == NRows(master_bom) = 0 \/ Len(master_bom.cols) = 0

\* mutant of validate_master_bom: duplicate (PN, Project) pairs are an error
validate_master_bom_rejecting_duplicates(master_bom) ==
    LET duplicated == \E j, k \in DOMAIN master_bom.rows :
                         /\ j < k
                         /\ master_bom.rows[j]["PN"] = master_bom.rows[k]["PN"]
                         /\ master_bom.rows[j]["Project"] = master_bom.rows[k]["Project"]
        errors == structure_errors(master_bom)
                  \o (IF duplicated THEN <<"Doublons detectes dans le Master BOM">>
                      ELSE <<>>)
    IN  IF is_empty(master_bom)
        THEN [done |-> TRUE, is_valid |-> FALSE, errors |-> <<"Master BOM vide">>]
        ELSE [done |-> TRUE, is_valid |-> Len(errors) = 0, errors |-> errors]

validate_master_bom(master_bom) ==
    LET errors == structure_errors(master_bom)
    IN  IF is_empty(master_bom)
        THEN [done |-> TRUE, is_valid |-> FALSE, errors |-> <<"Master BOM vide">>]
        ELSE [done |-> TRUE, is_valid |-> Len(errors) = 0, errors |-> errors]

NotValidated == [done |-> FALSE, is_valid |-> FALSE, errors |-> <<>>]

\* ------------------------------------------------------------------------
\* The tables a run is given
\* ------------------------------------------------------------------------
\* rows of the supplier file, as (PN, Project)
InputRowUniverse ==
    {<<"R1", "D">>, <<"R1", "0">>, <<"R1", NaN>>, <<"C2", "X">>}

\* rows of the Master BOM, as (PN, Project, Status)
CatalogRowUniverse ==
    {<<"R1", "D", "D">>, <<"R1", "D", "A">>, <<"R1", "0", "A">>,
     <<"R1", NaN, "D">>, <<"C2", "X", "A">>}

\* the project_column arguments: the default, a catalog column, and a column
\* the catalog does not have
ProjectColumnArgs == {None, "Status", "PROJ_2024"}

SeqsUpTo(S, n) == UNION {[1..k -> S] : k \in 0..n}

\* the supplier file: PN, Project, Price; or without its Project column
InputTables ==
    {[cols |-> <<"PN", "Project", "Price">>,
      rows |-> [i \in DOMAIN rs |->
                  [PN |-> rs[i][1], Project |-> rs[i][2], Price |-> "0.05"]]] :
        rs \in SeqsUpTo(InputRowUniverse, MaxInput)}
    \cup
    {[cols |-> <<"PN", "Price">>,
      rows |-> [i \in DOMAIN rs |-> [PN |-> rs[i], Price |-> "0.05"]]] :
        rs \in SeqsUpTo({"R1"}, MaxInput)}

\* _create_lookup_keys: PN and Project as strings, joined by '_'
create_lookup_key(pn, project) == astype_str(pn) \o "_" \o astype_str(project)

\* a Master BOM with the columns PN, Project, Status
PlainCatalog(rs) ==
    [cols |-> <<"PN", "Project", "Status">>,
     rows |-> [i \in DOMAIN rs |->
                 [PN |-> rs[i][1], Project |-> rs[i][2], Status |-> rs[i][3]]]]

\* the same with a Description and a lookup_key column that the caller
\* computed, either the way perform_lookup computes its keys ("pipe") or with
\* _create_lookup_keys ("underscore")
KeyedCatalog(rs, style) ==
    [cols |-> <<"PN", "Project", "Status", "Description", "lookup_key">>,
     rows |-> [i \in DOMAIN rs |->
                 [PN |-> rs[i][1], Project |-> rs[i][2], Status |-> rs[i][3],
                  Description |-> "Resistor",
                  lookup_key |-> IF style = "pipe"
                                 THEN composite_key(rs[i][1], rs[i][2])
                                 ELSE create_lookup_key(rs[i][1], rs[i][2])]]]

CatalogsOver(universe) ==
    {PlainCatalog(rs) : rs \in SeqsUpTo(universe, MaxCatalog)}
    \cup
    {KeyedCatalog(rs, style) :
        rs \in SeqsUpTo(universe, MaxCatalog), style \in {"pipe", "underscore"}}

CatalogTables == CatalogsOver(CatalogRowUniverse)

\* ------------------------------------------------------------------------
\* Initial state: a fresh LookupProcessor, and the caller's two tables
\* ------------------------------------------------------------------------
Init ==
    /\ \E input_df \in InputTables, master_bom \in CatalogTables :
          /\ frames = [id \in {"input_df", "master_bom"} |->
                          IF id = "input_df" THEN input_df ELSE master_bom]
          /\ master_before = master_bom
    /\ project_column \in ProjectColumnArgs
    /\ pc = "start"
    /\ error = None
    /\ lookup_df = None
    /\ processed_df = None
    /\ updated_master_bom = None
    /\ processing_stats = ZeroStats
    /\ additional_rows = <<>>
    /\ validation = NotValidated
    /\ EnhancedIdle
    /\ ExtensionIdle

\* ------------------------------------------------------------------------
\* Actions
\* ------------------------------------------------------------------------
\* ComponentDataProcessor._load_data validates the catalog it loaded; an
\* invalid catalog ends the run of process_file.  process_file gives
\* perform_lookup no project column.
ValidateMasterBom ==
    /\ pc = "start"
    /\ project_column = None
    /\ validation' = validate_master_bom(frames["master_bom"])
    /\ IF validation'.is_valid
       THEN pc' = "validated" /\ error' = error
       ELSE pc' = "failed" /\ error' = "Master BOM invalide"
    /\ UNCHANGED <<frames, project_column, lookup_df, processed_df,
                   updated_master_bom, processing_stats, additional_rows,
                   master_before>>
    /\ UNCHANGED enhanced_vars
    /\ UNCHANGED extension_vars

\* lookup_df = perform_lookup(input_df, master_bom, project_column)
PerformLookup ==
    /\ pc \in {"start", "validated", "cleaned"}
    /\ LET r == perform_lookup(frames["input_df"], frames["master_bom"], project_column)
       IN  IF r.ok
           THEN /\ frames' = [id \in DOMAIN frames \cup {"lookup_df"} |->
                                 IF id = "lookup_df" THEN r.df ELSE frames[id]]
                /\ lookup_df' = "lookup_df"
                /\ processing_stats' = [reset_stats(processing_stats) EXCEPT
                                          !.lookup_matches = r.lookup_matches,
                                          !.lookup_misses = r.lookup_misses]
                /\ pc' = "looked_up"
                /\ error' = error
           ELSE /\ processing_stats' = reset_stats(processing_stats)
                /\ pc' = "failed"
                /\ error' = r.err
                /\ UNCHANGED <<frames, lookup_df>>
    /\ additional_rows' = <<>>
    /\ UNCHANGED <<project_column, processed_df, updated_master_bom, validation,
                   master_before>>
    /\ UNCHANGED enhanced_vars
    /\ UNCHANGED extension_vars

\* processed_df, updated_master_bom = process_lookup_results(lookup_df, master_bom)
ProcessLookupResults ==
    /\ pc = "looked_up"
    /\ LET target == update_target("master_bom")
           r == process_lookup_results(frames[lookup_df], frames["master_bom"],
                                       processing_stats)
           written == [id \in DOMAIN frames \cup {target} |->
                          IF id = target THEN r.st.master_bom
                          ELSE IF id = lookup_df THEN r.st.df
                          ELSE frames[id]]
       IN  /\ processing_stats' = r.st.stats
           /\ additional_rows' = r.st.additional_rows
           /\ IF r.st.err # None
              THEN /\ frames' = written
                   /\ pc' = "failed"
                   /\ error' = r.st.err
                   /\ UNCHANGED <<processed_df, updated_master_bom>>
              ELSE /\ frames' = IF r.concatenated
                                THEN [id \in DOMAIN written \cup {"processed_df"} |->
                                        IF id = "processed_df" THEN r.result
                                        ELSE written[id]]
                                ELSE written
                   /\ processed_df' = IF r.concatenated THEN "processed_df" ELSE lookup_df
                   /\ updated_master_bom' = target
                   /\ pc' = "done"
                   /\ error' = error
    /\ UNCHANGED <<project_column, lookup_df, validation, master_before>>
    /\ UNCHANGED enhanced_vars
    /\ UNCHANGED extension_vars

Next == ValidateMasterBom \/ PerformLookup \/ ProcessLookupResults

Spec == Init /\ [][Next]_vars

\* ------------------------------------------------------------------------
\* Classification alone: process_lookup_results is a public method, given a
\* lookup table of the shape perform_lookup returns whose Status column holds
\* any of the status values, and a catalog
\* ------------------------------------------------------------------------
ResolvedStatusValues == {"D", "d", "0", "X", "x", NaN, "A", "weird"}

ClassifyCatalogUniverse == {<<"R1", "D", "D">>, <<"C2", "X", "A">>}

LookupTables ==
    {[cols |-> <<"PN", "Project", "Status", "Price", "lookup_key", "Notes", "Action">>,
      rows |-> [i \in DOMAIN ss |->
                  [PN |-> "R1", Project |-> "D", Status |-> ss[i], Price |-> "0.05",
                   lookup_key |-> composite_key("R1", "D"), Notes |-> "",
                   Action |-> ""]]] :
        ss \in SeqsUpTo(ResolvedStatusValues, MaxInput)}

InitClassify ==
    /\ \E df \in LookupTables, master_bom \in CatalogsOver(ClassifyCatalogUniverse) :
          /\ frames = [id \in {"input_df", "master_bom", "lookup_df"} |->
                          IF id = "master_bom" THEN master_bom
                          ELSE IF id = "lookup_df" THEN df
                          ELSE [cols |-> <<"PN", "Project", "Price">>,
                                rows |-> [i \in DOMAIN df.rows |->
                                            [PN |-> df.rows[i]["PN"],
                                             Project |-> df.rows[i]["Project"],
                                             Price |-> df.rows[i]["Price"]]]]]
          /\ master_before = master_bom
          /\ processing_stats =
                [ZeroStats EXCEPT
                    !.lookup_matches =
                        Cardinality({i \in DOMAIN df.rows : ~pd_isna(df.rows[i]["Status"])}),
                    !.lookup_misses =
                        Cardinality({i \in DOMAIN df.rows : pd_isna(df.rows[i]["Status"])})]
    /\ project_column = None
    /\ pc = "looked_up"
    /\ error = None
    /\ lookup_df = "lookup_df"
    /\ processed_df = None
    /\ updated_master_bom = None
    /\ additional_rows = <<>>
    /\ validation = NotValidated
    /\ EnhancedIdle
    /\ ExtensionIdle

NextClassify == ProcessLookupResults

SpecClassify == InitClassify /\ [][NextClassify]_vars

\* ========================================================================
\* Claims
\* ========================================================================
InputDf == frames["input_df"]
MasterBom == frames["master_bom"]
LookupDf == frames[lookup_df]
ProcessedDf == frames[processed_df]

AfterLookup == pc \in {"looked_up", "done"} \/ (pc = "failed" /\ lookup_df # None)
AfterClassification == pc = "done" \/ (pc = "failed" /\ error = "KeyError: 'lookup_key'")

\* two cells hold the same (non-missing) value
SameCell(a, b) == ~pd_isna(a) /\ ~pd_isna(b) /\ a = b

\* the catalog rows with the (PN, Project) of an input row
CatalogRowsFor(master_bom, row) ==
    {j \in DOMAIN master_bom.rows :
        /\ {"PN", "Project"} \subseteq DOMAIN row
        /\ SameCell(master_bom.rows[j]["PN"], row["PN"])
        /\ SameCell(master_bom.rows[j]["Project"], row["Project"])}

First(S) == CHOOSE j \in S : \A k \in S : j <= k

IsPlainCatalog(master_bom) == master_bom.cols = <<"PN", "Project", "Status">>

\* C1: after perform_lookup with no project column on a catalog with the
\* columns PN, Project, Status, an input row whose (PN, Project) is that of a
\* catalog row has that row's Status value as its Status, and an input row
\* with no such catalog row has a null Status.
C1_StatusIsCatalogStatus ==
    (AfterLookup /\ project_column = None /\ IsPlainCatalog(master_before)) =>
        \A i \in DOMAIN InputDf.rows :
            LET found == CatalogRowsFor(master_before, InputDf.rows[i])
                status == LookupDf.rows[i]["Status"]
            IN  IF found # {}
                THEN SameCell(status, master_before.rows[First(found)]["Status"])
                ELSE pd_isna(status)

\* C2: when several catalog rows share one composite key (PN, Project) and
\* carry different Status values, an input row with that key gets the Status
\* of the first of them in catalog order.
C2_FirstCatalogStatusWins ==
    (AfterLookup /\ project_column = None) =>
        \A i \in DOMAIN InputDf.rows :
            LET found == CatalogRowsFor(master_before, InputDf.rows[i])
            IN  (\E j, k \in found :
                    master_before.rows[j]["Status"] # master_before.rows[k]["Status"])
                => LookupDf.rows[i]["Status"] = master_before.rows[First(found)]["Status"]

\* the Action the classification of a status value is to leave on the row
\* itself ('' where the row is to stay untouched)
ExpectedAction(status) ==
    CASE pd_isna(status) -> ""
      [] status \in {"D", "d"} -> "Updated"
      [] status = "0" -> ""
      [] status \in {"X", "x"} -> "Skipped"
      [] status = "A" -> "No_Action"
      [] OTHER -> "Unknown_Status"

RowsWithStatus(df, S) == {i \in DOMAIN df.rows : df.rows[i]["Status"] \in S}

SyntheticWithAction(rows, action) == {k \in DOMAIN rows : rows[k]["Action"] = action}

\* C3: once process_lookup_results has run over a lookup table, every row
\* carries the Action of its status value (D/d Updated, X/x Skipped, A
\* No_Action, another value Unknown_Status with the value in Notes, 0 and null
\* untouched), and there is one Duplicate_Added synthetic row per row of
\* status 0 and one Unknown_Added synthetic row per row of null status.
C3_FourWayCoverage ==
    (pc \in {"done", "failed"}) =>
        /\ \A i \in DOMAIN LookupDf.rows :
             LET row == LookupDf.rows[i]
             IN  /\ row["Action"] = ExpectedAction(row["Status"])
                 /\ row["Action"] = "Unknown_Status" =>
                        row["Notes"] = "Statut non reconnu: " \o row["Status"]
        /\ Cardinality(SyntheticWithAction(additional_rows, "Duplicate_Added"))
             = Cardinality(RowsWithStatus(LookupDf, {"0"}))
        /\ Cardinality(SyntheticWithAction(additional_rows, "Unknown_Added"))
             = Cardinality(RowsWithStatus(LookupDf, {NaN}))
        /\ Len(additional_rows)
             = Cardinality(RowsWithStatus(LookupDf, {"0", NaN}))

\* the run went as far as perform_lookup
RunEnded == pc = "done" \/ (pc = "failed" /\ error # "Master BOM invalide")

\* C4: perform_lookup then process_lookup_results, for an input row whose
\* (PN, Project) is that of a catalog row of Status D: the run ends without
\* error, the row is tagged Updated with a note of the update to X,
\* status_d_updates is positive, and the returned catalog has Status X on
\* that catalog row.
C4_DeprecatedEndToEnd ==
    (RunEnded /\ project_column = None) =>
        \A i \in DOMAIN InputDf.rows :
            LET found == CatalogRowsFor(master_before, InputDf.rows[i])
            IN  (found # {} /\ master_before.rows[First(found)]["Status"] = "D") =>
                    /\ pc = "done"
                    /\ LookupDf.rows[i]["Action"] = "Updated"
                    /\ LookupDf.rows[i]["Notes"] = "Status D mis a jour vers X"
                    /\ processing_stats.status_d_updates > 0
                    /\ frames[updated_master_bom].rows[First(found)]["Status"] = "X"

\* the positions of the lookup rows whose status is 0 or null, in row order
RoutedRows(df) ==
    SelectSeq([i \in DOMAIN df.rows |-> i],
              LAMBDA i : df.rows[i]["Status"] = "0" \/ pd_isna(df.rows[i]["Status"]))

\* C5: in the output of a completed run, every input row of status 0 or null
\* is still there untouched (its cells as in the input, Notes and Action
\* empty), and for the k-th such row there is exactly one synthetic row, the
\* k-th row after the originals, with the same PN and Project, empty Price,
\* Description and Supplier, and Action Duplicate_Added with Status "0" (status
\* 0) or Action Unknown_Added with a null Status (status null).
C5_SyntheticRowPerDuplicateOrUnknown ==
    pc = "done" =>
        LET n == NRows(LookupDf)
            routed == RoutedRows(LookupDf)
        IN  /\ NRows(ProcessedDf) = n + Len(routed)
            /\ \A k \in DOMAIN routed :
                 LET i == routed[k]
                     original == ProcessedDf.rows[i]
                     synthetic == ProcessedDf.rows[n + k]
                 IN  /\ original["PN"] = InputDf.rows[i]["PN"]
                     /\ original["Project"] = InputDf.rows[i]["Project"]
                     /\ original["Price"] = InputDf.rows[i]["Price"]
                     /\ original["Status"] = LookupDf.rows[i]["Status"]
                     /\ original["Notes"] = ""
                     /\ original["Action"] = ""
                     /\ synthetic["PN"] = InputDf.rows[i]["PN"]
                     /\ synthetic["Project"] = InputDf.rows[i]["Project"]
                     /\ synthetic["Price"] = ""
                     /\ synthetic["Description"] = ""
                     /\ synthetic["Supplier"] = ""
                     /\ IF pd_isna(LookupDf.rows[i]["Status"])
                        THEN /\ synthetic["Action"] = "Unknown_Added"
                             /\ pd_isna(synthetic["Status"])
                        ELSE /\ synthetic["Action"] = "Duplicate_Added"
                             /\ synthetic["Status"] = "0"

\* a completed run with a row of status 0 and a row of null status
C5_Witness ==
    /\ pc = "done"
    /\ \E i, j \in DOMAIN LookupDf.rows :
          /\ LookupDf.rows[i]["Status"] = "0"
          /\ pd_isna(LookupDf.rows[j]["Status"])

\* two catalog rows with the same part number and project value
HasDuplicateKeys(master_bom) ==
    \E j, k \in DOMAIN master_bom.rows :
        /\ j # k
        /\ composite_key(master_bom.rows[j]["PN"], master_bom.rows[j]["Project"])
             = composite_key(master_bom.rows[k]["PN"], master_bom.rows[k]["Project"])

\* C6: perform_lookup returns one row per input row whatever the catalog
\* holds, and process_lookup_results returns len(input) rows plus one per row
\* of status 0 and one per row of null status.
C6_RowCount ==
    /\ pc \in {"looked_up", "done"} => NRows(LookupDf) = NRows(InputDf)
    /\ pc = "done" =>
          NRows(ProcessedDf) =
              NRows(InputDf)
              + Cardinality(RowsWithStatus(LookupDf, {"0"}))
              + Cardinality(RowsWithStatus(LookupDf, {NaN}))

\* a completed run over a catalog with duplicate keys that added two rows
C6_Witness ==
    /\ pc = "done"
    /\ HasDuplicateKeys(master_before)
    /\ NRows(InputDf) = MaxInput
    /\ NRows(ProcessedDf) = NRows(InputDf) + 2

\* C7: a catalog cell differs from its value before process_lookup_results
\* only if it is the Status cell of a row whose lookup_key is the key of a
\* lookup row of status D/d, and it then holds "X"; rows of any other status
\* change nothing in the catalog.
C7_CatalogFrame ==
    /\ MasterBom.cols = master_before.cols
    /\ NRows(MasterBom) = NRows(master_before)
    /\ \A j \in DOMAIN master_before.rows : \A c \in ColSet(master_before) :
          MasterBom.rows[j][c] # master_before.rows[j][c] =>
              /\ c = "Status"
              /\ MasterBom.rows[j][c] = "X"
              /\ HasCol(master_before, "lookup_key")
              /\ \E i \in DOMAIN LookupDf.rows :
                    /\ LookupDf.rows[i]["Status"] \in {"D", "d"}
                    /\ LookupDf.rows[i]["lookup_key"] = master_before.rows[j]["lookup_key"]

\* a completed classification of a D row and a row of another status that
\* rewrote one catalog row and left another one alone
C7_Witness ==
    /\ pc = "done"
    /\ \E i \in DOMAIN LookupDf.rows : LookupDf.rows[i]["Status"] \notin {"D", "d"}
    /\ \E j, k \in DOMAIN master_before.rows :
          /\ MasterBom.rows[j]["Status"] # master_before.rows[j]["Status"]
          /\ MasterBom.rows[k] = master_before.rows[k]

\* the catalog after the D->X rewrite for the lookup rows of status D/d: the
\* rows whose lookup_key is the key of such a row hold Status "X"
Rewritten(master_bom, df) ==
    IF ~HasCol(master_bom, "lookup_key") THEN master_bom
    ELSE [master_bom EXCEPT !.rows =
             [j \in DOMAIN master_bom.rows |->
                 IF \E i \in DOMAIN df.rows :
                        /\ df.rows[i]["Status"] \in {"D", "d"}
                        /\ df.rows[i]["lookup_key"] = master_bom.rows[j]["lookup_key"]
                 THEN [master_bom.rows[j] EXCEPT !["Status"] = "X"]
                 ELSE master_bom.rows[j]]]

C9_FailedRunLeavesCatalog ==
    pc = "failed" => MasterBom = master_before

\* a run that failed in the classification of its second row
C9_Witness ==
    /\ pc = "failed"
    /\ error = "KeyError: 'lookup_key'"
    /\ processing_stats.total_processed = 2

\* the KeyErrors of perform_lookup
LookupErrors == {"KeyError: 'PN'", "KeyError: 'Project'", "KeyError: lookup_col"}

DoublonMessages == {"Doublons detectes dans le Master BOM"}

\* C11: validate_master_bom on a catalog with two rows of the same PN and
\* Project returns is_valid = False and an error message containing 'Doublon'.
C11_DuplicateKeysRejected ==
    (validation.done /\ HasDuplicateKeys(master_before)) =>
        /\ ~validation.is_valid
        /\ \E k \in DOMAIN validation.errors : validation.errors[k] \in DoublonMessages

\* ------------------------------------------------------------------------
\* Validation alone: validate_master_bom is a public method, given a catalog
\* of any column layout
\* ------------------------------------------------------------------------
\* the column layouts: none, the test's layouts, a status column in first
\* position, a Yazaki part-number column, no part-number column
ValidateLayouts ==
    {<<>>, <<"Description">>, <<"PN", "Status">>, <<"Status", "PN">>,
     <<"Yazaki PN", "Status">>, <<"Description", "Status">>,
     <<"PN", "Yazaki PN">>}

\* the cell values: two status values, a null and a part number
ValidateCellValues == {"A", "0", NaN, "R1"}

ValidateCatalogs ==
    UNION {{[cols |-> layout, rows |-> rs] :
               rs \in SeqsUpTo([{layout[i] : i \in DOMAIN layout} -> ValidateCellValues],
                               MaxCatalog)} :
           layout \in ValidateLayouts}

InitValidate ==
    /\ \E master_bom \in ValidateCatalogs :
          /\ frames = [id \in {"input_df", "master_bom"} |->
                          IF id = "input_df"
                          THEN [cols |-> <<"PN", "Project", "Price">>, rows |-> <<>>]
                          ELSE master_bom]
          /\ master_before = master_bom
    /\ project_column = None
    /\ pc = "start"
    /\ error = None
    /\ lookup_df = None
    /\ processed_df = None
    /\ updated_master_bom = None
    /\ processing_stats = ZeroStats
    /\ additional_rows = <<>>
    /\ validation = NotValidated
    /\ EnhancedIdle
    /\ ExtensionIdle

NextValidate == ValidateMasterBom

SpecValidate == InitValidate /\ [][NextValidate]_vars

\* the part-number column names validate_master_bom knows
PnColumnNames == {"PN", "Yazaki PN", "YAZAKI PN", "yazaki pn"}

\* the columns whose non-null values include one of A, D, X, 0
StatusLikeColumns(master_bom) ==
    {c \in ColSet(master_bom) :
        \E i \in DOMAIN master_bom.rows :
            master_bom.rows[i][c] \in {"A", "D", "X", "0"}}

\* the error messages that contain 'vide'
VideMessages == {"Master BOM vide"}

\* C12 as claimed: (True, []) for every non-empty catalog with a part-number
\* column and at least one status-like column; False with an error mentioning
\* 'vide' for an empty catalog; False with errors when there is no
\* part-number column or no status-like column.
C12_ValidateDecision ==
    validation.done =>
        LET m == master_before
            has_pn == ColSet(m) \cap PnColumnNames # {}
            has_status == StatusLikeColumns(m) # {}
        IN  /\ (~is_empty(m) /\ has_pn /\ has_status)
                  => (validation.is_valid /\ validation.errors = <<>>)
            /\ is_empty(m)
                  => /\ ~validation.is_valid
                     /\ \E k \in DOMAIN validation.errors :
                           validation.errors[k] \in VideMessages
            /\ (~is_empty(m) /\ (~has_pn \/ ~has_status))
                  => (~validation.is_valid /\ validation.errors # <<>>)

\* C12 amended: the status-like column that makes a catalog valid is one
\* that is neither the first column nor named as a part-number column.
C12_ValidateDecisionFromSecondColumn ==
    validation.done =>
        LET m == master_before
            has_pn == ColSet(m) \cap PnColumnNames # {}
            counted == {c \in StatusLikeColumns(m) :
                           c \notin PnColumnNames /\ c # m.cols[1]}
        IN  /\ (~is_empty(m) /\ has_pn /\ counted # {})
                  => (validation.is_valid /\ validation.errors = <<>>)
            /\ is_empty(m)
                  => /\ ~validation.is_valid
                     /\ \E k \in DOMAIN validation.errors :
                           validation.errors[k] \in VideMessages
            /\ (~is_empty(m) /\ (~has_pn \/ counted = {}))
                  => (~validation.is_valid /\ validation.errors # <<>>)

\* a catalog with a part-number column whose only status-like column is the
\* first one, reported invalid
C12_Witness ==
    /\ validation.done
    /\ master_before.cols = <<"Status", "PN">>
    /\ StatusLikeColumns(master_before) = {"Status"}
    /\ ~validation.is_valid
    /\ validation.errors # <<>>

\* perform_lookup was given the columns it reads: PN and Project in the
\* input, and the requested column in the catalog
ExpectedColumnsPresent ==
    /\ {"PN", "Project"} \subseteq ColSet(InputDf)
    /\ HasCol(master_before, requested_column(project_column))

\* the lookup table holds the input's rows: as many, with the input's cells
SameRowsAsInput ==
    /\ NRows(LookupDf) = NRows(InputDf)
    /\ \A i \in DOMAIN InputDf.rows :
          \A c \in ColSet(InputDf) : LookupDf.rows[i][c] = InputDf.rows[i][c]

\* C13: on an empty input or an empty catalog that have the expected columns,
\* perform_lookup raises nothing, returns the input's rows and records
\* lookup_matches = 0.
C13_EmptyTables ==
    (ExpectedColumnsPresent /\ (NRows(InputDf) = 0 \/ NRows(master_before) = 0)) =>
        /\ error \notin LookupErrors
        /\ AfterLookup =>
              /\ SameRowsAsInput
              /\ processing_stats.lookup_matches = 0

\* perform_lookup has returned for an input of two rows and an empty catalog
C13_Witness ==
    /\ pc = "looked_up"
    /\ ExpectedColumnsPresent
    /\ NRows(master_before) = 0
    /\ NRows(InputDf) = 2
    /\ processing_stats.lookup_misses = 2

\* the composite keys of the catalog: part number and the value of the
\* selected project column
CatalogKeys ==
    {composite_key(master_before.rows[j]["PN"],
                   master_before.rows[j][requested_column(project_column)]) :
        j \in DOMAIN master_before.rows}

\* the input rows whose composite key is a key of the catalog
FoundRows ==
    {i \in DOMAIN InputDf.rows :
        composite_key(InputDf.rows[i]["PN"], InputDf.rows[i]["Project"]) \in CatalogKeys}

\* C14: after perform_lookup a row's Status is null exactly when its
\* composite key is not a key of the catalog, lookup_matches counts the rows
\* found, lookup_misses the rows not found, and they add up to the input's
\* row count.
C14_NullIffMiss ==
    (AfterLookup /\ ExpectedColumnsPresent) =>
        /\ \A i \in DOMAIN InputDf.rows :
              pd_isna(LookupDf.rows[i]["Status"]) <=> i \notin FoundRows
        /\ processing_stats.lookup_matches = Cardinality(FoundRows)
        /\ processing_stats.lookup_misses = NRows(InputDf) - Cardinality(FoundRows)
        /\ processing_stats.lookup_matches + processing_stats.lookup_misses
              = NRows(InputDf)

\* a lookup with one row found, through a catalog row whose selected value is
\* null, and one row missed
C14_Witness ==
    /\ pc = "looked_up"
    /\ ExpectedColumnsPresent
    /\ processing_stats.lookup_matches = 1
    /\ processing_stats.lookup_misses = 1
    /\ \E i \in FoundRows : pd_isna(InputDf.rows[i]["Project"])

\* the input rows whose composite key is first held by a catalog row with a
\* null value in the selected column
NullValuedRows ==
    {i \in FoundRows :
        LET key == composite_key(InputDf.rows[i]["PN"], InputDf.rows[i]["Project"])
            col == requested_column(project_column)
            holders == {j \in DOMAIN master_before.rows :
                           composite_key(master_before.rows[j]["PN"],
                                         master_before.rows[j][col]) = key}
        IN  pd_isna(master_before.rows[First(holders)][col])}

\* C15: an input row whose key is first held by a catalog row with a null
\* value in the selected column gets Status "0" and is counted as a match;
\* classification appends a Duplicate_Added row for it, not an Unknown_Added
\* row.
C15_NullCatalogValueIsDuplicate ==
    ExpectedColumnsPresent =>
        /\ AfterLookup =>
              /\ \A i \in NullValuedRows : LookupDf.rows[i]["Status"] = "0"
              /\ processing_stats.lookup_misses <= NRows(InputDf) - Cardinality(NullValuedRows)
              /\ processing_stats.lookup_matches >= Cardinality(NullValuedRows)
        /\ pc = "done" =>
              LET routed == RoutedRows(LookupDf)
              IN  /\ NRows(ProcessedDf) = NRows(LookupDf) + Len(routed)
                  /\ \A k \in DOMAIN routed :
                        routed[k] \in NullValuedRows =>
                            /\ ProcessedDf.rows[NRows(LookupDf) + k]["Action"]
                                  = "Duplicate_Added"
                            /\ ProcessedDf.rows[NRows(LookupDf) + k]["Status"] = "0"
                  /\ \A i \in NullValuedRows : \E k \in DOMAIN routed : routed[k] = i
                  /\ processing_stats.status_0_duplicates >= Cardinality(NullValuedRows)

\* a completed run over an input row matched through a null catalog value
C15_Witness ==
    /\ pc = "done"
    /\ ExpectedColumnsPresent
    /\ NullValuedRows # {}
    /\ processing_stats.status_0_duplicates > 0

\* the Action values of synthetic rows
SyntheticActions == {"Duplicate_Added", "Unknown_Added"}

\* C16: in the table process_lookup_results returns, the first len(input)
\* rows are the input's rows in input order, every row after them is
\* synthetic, and the k-th synthetic row stems from the k-th input row that
\* was routed to Duplicate or Unknown.
C16_OriginalsThenAdditions ==
    pc = "done" =>
        LET n == NRows(InputDf)
            routed == RoutedRows(LookupDf)
        IN  /\ NRows(ProcessedDf) >= n
            /\ \A i \in 1..n :
                  /\ ProcessedDf.rows[i]["PN"] = InputDf.rows[i]["PN"]
                  /\ ProcessedDf.rows[i]["Project"] = InputDf.rows[i]["Project"]
                  /\ ProcessedDf.rows[i]["Price"] = InputDf.rows[i]["Price"]
                  /\ ProcessedDf.rows[i]["Action"] \notin SyntheticActions
            /\ \A k \in 1..(NRows(ProcessedDf) - n) :
                  /\ ProcessedDf.rows[n + k]["Action"] \in SyntheticActions
                  /\ k <= Len(routed)
                  /\ ProcessedDf.rows[n + k]["PN"] = InputDf.rows[routed[k]]["PN"]
                  /\ ProcessedDf.rows[n + k]["Project"]
                        = InputDf.rows[routed[k]]["Project"]

\* a completed run that appended two synthetic rows for different parts
C16_Witness ==
    /\ pc = "done"
    /\ NRows(ProcessedDf) = NRows(InputDf) + 2
    /\ ProcessedDf.rows[NRows(InputDf) + 1]["PN"]
          # ProcessedDf.rows[NRows(InputDf) + 2]["PN"]

\* ------------------------------------------------------------------------
\* EnhancedLookupProcessor (enhanced_lookup_processor.py).  Its methods work
\* on the characters of column names, so a string is here the sequence of its
\* characters.
\* ------------------------------------------------------------------------
LowerLetters ==
    <<"a", "b", "c", "d", "e", "f", "g", "h", "i", "j", "k", "l", "m",
      "n", "o", "p", "q", "r", "s", "t", "u", "v", "w", "x", "y", "z">>

UpperLetters ==
    <<"A", "B", "C", "D", "E", "F", "G", "H", "I", "J", "K", "L", "M",
      "N", "O", "P", "Q", "R", "S", "T", "U", "V", "W", "X", "Y", "Z">>

\* str.lower
lower(s) ==
    [i \in DOMAIN s |->
        IF \E n \in DOMAIN UpperLetters : UpperLetters[n] = s[i]
        THEN LowerLetters[CHOOSE n \in DOMAIN UpperLetters : UpperLetters[n] = s[i]]
        ELSE s[i]]

\* str.upper
upper(s) ==
    [i \in DOMAIN s |->
        IF \E n \in DOMAIN LowerLetters : LowerLetters[n] = s[i]
        THEN UpperLetters[CHOOSE n \in DOMAIN LowerLetters : LowerLetters[n] = s[i]]
        ELSE s[i]]

\* not s.strip(): the string holds nothing but whitespace
strip_is_empty(s) == \A i \in DOMAIN s : s[i] = " "

\* s.split('_')
RECURSIVE split(_)
split(s) ==
    IF \A i \in DOMAIN s : s[i] # "_" THEN <<s>>
    ELSE LET cut == CHOOSE i \in DOMAIN s :
                        s[i] = "_" /\ \A j \in 1..(i - 1) : s[j] # "_"
         IN  <<SubSeq(s, 1, cut - 1)>> \o split(SubSeq(s, cut + 1, Len(s)))

\* '_'.join(parts)
RECURSIVE join(_)
join(parts) ==
    IF parts = <<>> THEN <<>>
    ELSE IF Len(parts) = 1 THEN parts[1]
    ELSE parts[1] \o <<"_">> \o join(Tail(parts))

\* s.startswith(p), s.endswith(p)
startswith(s, p) == Len(p) <= Len(s) /\ SubSeq(s, 1, Len(p)) = p

endswith(s, p) == Len(p) <= Len(s) /\ SubSeq(s, Len(s) - Len(p) + 1, Len(s)) = p

\* sub in s
contains(s, sub) ==
    \E i \in 0..(Len(s) - Len(sub)) : SubSeq(s, i + 1, i + Len(sub)) = sub

\* SequenceMatcher(None, a, b): the number of characters in the matching
\* blocks.  find_longest_match returns the longest common block, of those the
\* one starting earliest in a, of those the one starting earliest in b; the
\* matcher recurses on the pieces left and right of it.
RECURSIVE matches(_, _)
matches(a, b) ==
    LET common(i, j, k) ==
            /\ i + k - 1 <= Len(a)
            /\ j + k - 1 <= Len(b)
            /\ SubSeq(a, i, i + k - 1) = SubSeq(b, j, j + k - 1)
        sizes == {k \in 1..Min(Len(a), Len(b)) :
                     \E i \in DOMAIN a, j \in DOMAIN b : common(i, j, k)}
    IN  IF sizes = {} THEN 0
        ELSE LET k == CHOOSE x \in sizes : \A y \in sizes : y <= x
                 starts_a == {i \in DOMAIN a : \E j \in DOMAIN b : common(i, j, k)}
                 i == First(starts_a)
                 j == First({y \in DOMAIN b : common(i, y, k)})
             IN  k + matches(SubSeq(a, 1, i - 1), SubSeq(b, 1, j - 1))
                   + matches(SubSeq(a, i + k, Len(a)), SubSeq(b, j + k, Len(b)))

\* a score is the fraction num / den
Score(num, den) == [num |-> num, den |-> den]

\* the scores 0, 0.9 and 1.0
NoScore == Score(0, 1)

Threshold == Score(9, 10)

FullScore == Score(1, 1)

\* x >= y, x > y on scores
score_ge(x, y) == x.num * y.den >= y.num * x.den

score_gt(x, y) == x.num * y.den > y.num * x.den

\* SequenceMatcher(None, a, b).ratio(): 2.0 * matches / (len(a) + len(b)), and
\* 1.0 for two empty strings
ratio(a, b) ==
    IF Len(a) + Len(b) = 0 THEN FullScore
    ELSE Score(2 * matches(a, b), Len(a) + Len(b))

\* the pair (best, best_score) the loops of suggest_column carry
Best(col, score) == [col |-> col, score |-> score]

\* mutant of prefix_scan: a candidate of the prefix/suffix path is accepted
\* below the threshold
RECURSIVE prefix_scan_without_threshold(_, _, _, _, _)
prefix_scan_without_threshold(input_name, columns, prefix, suffix, n) ==
    IF n = 0 THEN Best(input_name, NoScore)
    ELSE LET before == prefix_scan_without_threshold(input_name, columns, prefix,
                                                     suffix, n - 1)
             col == columns[n]
             score == ratio(lower(input_name), lower(col))
         IN  IF /\ startswith(upper(col), upper(prefix))
                /\ endswith(upper(col), upper(suffix))
                /\ score_gt(score, before.score)
             THEN Best(col, score)
             ELSE before

\* the first loop of suggest_column over columns[0..n-1]: candidates that
\* start with the prefix and end with the suffix, scored, kept from 0.9 on
RECURSIVE prefix_scan(_, _, _, _, _)
prefix_scan(input_name, columns, prefix, suffix, n) ==
    IF n = 0 THEN Best(input_name, NoScore)
    ELSE LET before == prefix_scan(input_name, columns, prefix, suffix, n - 1)
             col == columns[n]
             score == ratio(lower(input_name), lower(col))
         IN  IF /\ startswith(upper(col), upper(prefix))
                /\ endswith(upper(col), upper(suffix))
                /\ score_ge(score, Threshold)
                /\ score_gt(score, before.score)
             THEN Best(col, score)
             ELSE before

\* the fallback loop of suggest_column over columns[0..n-1]
RECURSIVE fallback_scan(_, _, _)
fallback_scan(input_name, columns, n) ==
    IF n = 0 THEN Best(input_name, NoScore)
    ELSE LET before == fallback_scan(input_name, columns, n - 1)
             score == ratio(lower(input_name), lower(columns[n]))
         IN  IF score_gt(score, before.score) THEN Best(columns[n], score)
             ELSE before

\* EnhancedLookupProcessor.suggest_column: (suggested_column, confidence_score)
suggest_column(input_name, columns) ==
    IF strip_is_empty(input_name)
    THEN Best(IF columns # <<>> THEN columns[1] ELSE <<>>, NoScore)
    ELSE LET parts == split(input_name)
             prefix == join(SubSeq(parts, 1, 3))
             suffix == parts[Len(parts)]
             by_prefix == prefix_scan(input_name, columns, prefix, suffix,
                                      Len(columns))
         IN  IF Len(parts) >= 4 /\ score_gt(by_prefix.score, NoScore)
             THEN by_prefix
             ELSE fallback_scan(input_name, columns, Len(columns))

\* ------------------------------------------------------------------------
\* suggest_column alone, over hints and candidate lists
\* ------------------------------------------------------------------------
MaxCandidates == 2

\* characters of a string literal, one per element
Hint4 == <<"a", "_", "b", "_", "c", "_", "d">>

\* the hints: four segments, two segments, empty, a blank
Hints == {Hint4, <<"a", "_", "b">>, <<>>, <<" ">>}

\* the candidates: the hint itself in upper case; prefix and suffix of the
\* hint with one or three characters inserted; the hint with a character
\* appended; two names that share little or nothing with the hints
CandidateUniverse ==
    {<<"A", "_", "B", "_", "C", "_", "D">>,
     <<"a", "_", "b", "_", "c", "_", "x", "d">>,
     <<"a", "_", "b", "_", "c", "_", "x", "y", "z", "d">>,
     <<"a", "_", "b", "_", "c", "_", "d", "x">>,
     <<"a", " ", "b">>,
     <<"z", "z">>}

InitSuggest ==
    /\ project_hint \in Hints
    /\ candidates \in SeqsUpTo(CandidateUniverse, MaxCandidates)
    /\ master_df = [cols |-> <<>>, rows |-> <<>>]
    /\ suggestion = [done |-> FALSE]
    /\ analysis = [done |-> FALSE]
    /\ frames = [id \in {"input_df", "master_bom"} |-> [cols |-> <<>>, rows |-> <<>>]]
    /\ master_before = [cols |-> <<>>, rows |-> <<>>]
    /\ project_column = None
    /\ pc = "start"
    /\ error = None
    /\ lookup_df = None
    /\ processed_df = None
    /\ updated_master_bom = None
    /\ processing_stats = ZeroStats
    /\ additional_rows = <<>>
    /\ validation = NotValidated
    /\ ExtensionIdle

\* suggestion = suggest_column(project_hint, candidates)
SuggestColumn ==
    /\ pc = "start"
    /\ ~suggestion.done
    /\ LET r == suggest_column(project_hint, candidates)
       IN  suggestion' = [done |-> TRUE, col |-> r.col, confidence |-> r.score]
    /\ pc' = "suggested"
    /\ UNCHANGED <<frames, project_column, error, lookup_df, processed_df,
                   updated_master_bom, processing_stats, additional_rows,
                   validation, master_before>>
    /\ UNCHANGED <<master_df, project_hint, candidates, analysis>>
    /\ UNCHANGED extension_vars

NextSuggest == SuggestColumn

SpecSuggest == InitSuggest /\ [][NextSuggest]_vars

\* the candidates as a set
CandidateSet == {candidates[i] : i \in DOMAIN candidates}

\* the similarity ratio of a candidate to the hint
RatioToHint(col) == ratio(lower(project_hint), lower(col))

\* C17: for a hint of at least four segments, when some candidate has a
\* similarity ratio of 0.90 or more to the hint, suggest_column returns a
\* candidate whose ratio to the hint is 0.90 or more, and that ratio as the
\* confidence.
C17_SuggestionThreshold ==
    ( /\ suggestion.done
      /\ Len(split(project_hint)) >= 4
      /\ \E c \in CandidateSet : score_ge(RatioToHint(c), Threshold) )
    => /\ suggestion.col \in CandidateSet
       /\ score_ge(RatioToHint(suggestion.col), Threshold)
       /\ suggestion.confidence = RatioToHint(suggestion.col)

\* the only candidate at 0.90 or more fails the suffix test, another one
\* passes prefix and suffix below 0.90
C17_Witness ==
    /\ suggestion.done
    /\ project_hint = Hint4
    /\ candidates = << <<"a", "_", "b", "_", "c", "_", "x", "y", "z", "d">>,
                       <<"a", "_", "b", "_", "c", "_", "d", "x">> >>
    /\ suggestion.col = <<"a", "_", "b", "_", "c", "_", "d", "x">>

\* C18: for a non-empty (not blank) hint and a non-empty candidate list, when the
\* prefix/suffix path accepted no candidate, suggest_column returns a member
\* of candidates whose similarity ratio to the hint is maximal among all
\* candidates.
C18_FallbackIsBestCandidate ==
    ( /\ suggestion.done
      /\ ~strip_is_empty(project_hint)
      /\ candidates # <<>>
      /\ \/ Len(split(project_hint)) < 4
         \/ ~\E c \in CandidateSet :
                /\ startswith(upper(c), upper(join(SubSeq(split(project_hint), 1, 3))))
                /\ endswith(upper(c),
                            upper(split(project_hint)[Len(split(project_hint))]))
                /\ score_ge(RatioToHint(c), Threshold) )
    => /\ suggestion.col \in CandidateSet
       /\ \A c \in CandidateSet :
             score_ge(RatioToHint(suggestion.col), RatioToHint(c))

\* ------------------------------------------------------------------------
\* get_column_suggestions, analyze_project_columns, find_best_project_column
\* ------------------------------------------------------------------------
\* the default arguments start_col and end_col of get_column_suggestions
DefaultStartCol == 1

DefaultEndCol == 22

\* columns[start_col:min(end_col, len(columns))], a slice of 0-based indices
\* with the end excluded: the 1-based positions start_col + 1 .. end_idx
get_column_suggestions(df, start_col, end_col) ==
    LET end_idx == Min(end_col, Len(df.cols))
    IN  SubSeq(df.cols, start_col + 1, end_idx)

\* master_df[col].notna().sum()
non_null_count(df, col) ==
    Cardinality({i \in DOMAIN df.rows : ~pd_isna(df.rows[i][col])})

\* round((non_null_count / total_count) * 100, 1), in tenths of a percent
fill_percentage(df, col) ==
    (2000 * non_null_count(df, col) + NRows(df)) \div (2 * NRows(df))

\* one entry of columns_analysis
column_entry(df, col) ==
    [name |-> col,
     fill_count |-> non_null_count(df, col),
     total_count |-> NRows(df),
     fill_percentage |-> fill_percentage(df, col),
     is_project_column |-> \/ contains(upper(col), <<"V", "7", "1", "0">>)
                           \/ contains(upper(col), <<"J", "7", "4">>)]

\* list.sort(key=fill_percentage, reverse=True), a stable sort: an entry goes
\* behind the entries before it that are not smaller
RECURSIVE sort_by_fill(_)
sort_by_fill(entries) ==
    IF entries = <<>> THEN <<>>
    ELSE LET sorted == sort_by_fill(SubSeq(entries, 1, Len(entries) - 1))
             e == entries[Len(entries)]
             ahead == Cardinality({i \in DOMAIN sorted :
                          sorted[i].fill_percentage >= e.fill_percentage})
         IN  SubSeq(sorted, 1, ahead) \o <<e>> \o SubSeq(sorted, ahead + 1, Len(sorted))

\* analyze_project_columns(master_df)["columns_analysis"]
analyze_project_columns(df) ==
    LET columns == get_column_suggestions(df, DefaultStartCol, DefaultEndCol)
    IN  sort_by_fill([i \in DOMAIN columns |-> column_entry(df, columns[i])])

\* find_best_project_column(master_df, project_hint)
find_best_project_column(df, hint) ==
    LET columns_analysis == analyze_project_columns(df)
        columns == [i \in DOMAIN columns_analysis |-> columns_analysis[i].name]
        chosen ==
            IF hint # <<>> THEN suggest_column(hint, columns)
            ELSE IF columns_analysis # <<>>
                 THEN Best(columns_analysis[1].name,
                           Score(columns_analysis[1].fill_percentage, 1000))
                 ELSE Best(<<>>, NoScore)
    IN  [best_col |-> chosen.col, confidence |-> chosen.score,
         analysis |-> columns_analysis]

\* ------------------------------------------------------------------------
\* The analysis methods alone, over catalogs
\* ------------------------------------------------------------------------
MaxColumns == 24

PnName == <<"P", "N">>

DescriptionName == <<"D", "e", "s", "c">>

ProjectName == <<"J", "7", "4">>

\* a wide catalog of n columns and two rows: column j is named "c" and the
\* j-th letter, and holds j mod 3 values
WideCatalog(n) ==
    LET name(j) == <<"c", LowerLetters[j]>>
    IN  [cols |-> [j \in 1..n |-> name(j)],
         rows |-> [i \in 1..2 |->
                     [c \in {name(j) : j \in 1..n} |->
                         LET j == CHOOSE x \in 1..n : name(x) = c
                         IN  IF i <= j % 3 THEN "A" ELSE NaN]]]

\* a catalog with a part-number column, a description and a project column
NarrowCatalogs ==
    {[cols |-> <<PnName, DescriptionName, ProjectName>>,
      rows |-> [i \in DOMAIN rs |->
                  [c \in {PnName, DescriptionName, ProjectName} |->
                      IF c = PnName THEN "R1"
                      ELSE IF c = DescriptionName THEN rs[i][1]
                      ELSE rs[i][2]]]] :
        rs \in SeqsUpTo({"A", NaN, "Resistor"} \X {"A", NaN, "Resistor"}, MaxCatalog)
               \ {<<>>}}

AnalysisCatalogs == {WideCatalog(n) : n \in 0..MaxColumns} \cup NarrowCatalogs

InitAnalysis ==
    /\ master_df \in AnalysisCatalogs
    /\ project_hint \in {<<>>, <<"j", "7", "4">>}
    /\ candidates = <<>>
    /\ suggestion = [done |-> FALSE]
    /\ analysis = [done |-> FALSE]
    /\ frames = [id \in {"input_df", "master_bom"} |-> [cols |-> <<>>, rows |-> <<>>]]
    /\ master_before = [cols |-> <<>>, rows |-> <<>>]
    /\ project_column = None
    /\ pc = "start"
    /\ error = None
    /\ lookup_df = None
    /\ processed_df = None
    /\ updated_master_bom = None
    /\ processing_stats = ZeroStats
    /\ additional_rows = <<>>
    /\ validation = NotValidated
    /\ ExtensionIdle

\* analysis = analyze_project_columns(master_df)
AnalyzeProjectColumns ==
    /\ pc = "start"
    /\ analysis' = [done |-> TRUE,
                    columns_analysis |-> analyze_project_columns(master_df)]
    /\ pc' = "analyzed"
    /\ UNCHANGED <<frames, project_column, error, lookup_df, processed_df,
                   updated_master_bom, processing_stats, additional_rows,
                   validation, master_before>>
    /\ UNCHANGED <<master_df, project_hint, candidates, suggestion>>
    /\ UNCHANGED extension_vars

\* best_col, confidence, analysis = find_best_project_column(master_df, project_hint)
FindBestProjectColumn ==
    /\ pc = "start"
    /\ LET r == find_best_project_column(master_df, project_hint)
       IN  /\ suggestion' = [done |-> TRUE, col |-> r.best_col,
                             confidence |-> r.confidence]
           /\ analysis' = [done |-> TRUE, columns_analysis |-> r.analysis]
    /\ pc' = "found"
    /\ UNCHANGED <<frames, project_column, error, lookup_df, processed_df,
                   updated_master_bom, processing_stats, additional_rows,
                   validation, master_before>>
    /\ UNCHANGED <<master_df, project_hint, candidates>>
    /\ UNCHANGED extension_vars

NextAnalysis == AnalyzeProjectColumns \/ FindBestProjectColumn

SpecAnalysis == InitAnalysis /\ [][NextAnalysis]_vars

\* the columns of the catalog whose values include one of A, D, X, 0
StatusLike ==
    {c \in ColSet(master_df) :
        \E i \in DOMAIN master_df.rows : master_df.rows[i][c] \in {"A", "D", "X", "0"}}

\* the status-like columns among those the analysis covers
AnalysedStatusLike ==
    {c \in StatusLike :
        \E k \in DOMAIN analysis.columns_analysis : analysis.columns_analysis[k].name = c}

\* C19: with an empty hint find_best_project_column returns the status-like
\* column of highest fill percentage; a column that is not status-like is not
\* returned.
C19_BestIsStatusLike ==
    (pc = "found" /\ project_hint = <<>> /\ AnalysedStatusLike # {}) =>
        /\ suggestion.col \in AnalysedStatusLike
        /\ \A c \in AnalysedStatusLike :
              fill_percentage(master_df, suggestion.col) >= fill_percentage(master_df, c)

\* C20: the analysis has exactly one entry for each catalog column at the
\* 1-based positions 2 to 23 (fewer when the catalog has fewer columns), and
\* the entries are in non-increasing order of fill percentage.
C20_WindowAndOrder ==
    analysis.done =>
        LET entries == analysis.columns_analysis
            last == Min(23, Len(master_df.cols))
        IN  /\ \A p \in 2..last :
                  Cardinality({k \in DOMAIN entries :
                                  entries[k].name = master_df.cols[p]}) = 1
            /\ \A k \in DOMAIN entries :
                  \E p \in 2..last : entries[k].name = master_df.cols[p]
            /\ \A k \in 1..(Len(entries) - 1) :
                  entries[k].fill_percentage >= entries[k + 1].fill_percentage

\* ------------------------------------------------------------------------
\* ColumnMapper (src/utils/column_mapper.py).  A column name is the sequence
\* of its characters; a standard column (PN, Project, ...) is named by a
\* string.
\* ------------------------------------------------------------------------
MaxHeaders == 2

\* self.column_mappings: for each standard column, its accepted spellings
column_mappings ==
    [ PN |->
        << <<"P", "N">>,
           <<"P", "a", "r", "t", " ", "N", "u", "m", "b", "e", "r">>,
           <<"P", "a", "r", "t", "_", "N", "u", "m", "b", "e", "r">>,
           <<"P", "a", "r", "t", "N", "u", "m", "b", "e", "r">>,
           <<"Y", "a", "z", "a", "k", "i", " ", "P", "a", "r", "t", " ", "N", "u", "m", "b", "e", "r">>,
           <<"Y", "A", "Z", "A", "K", "I", " ", "P", "A", "R", "T", " ", "N", "U", "M", "B", "E", "R">>,
           <<"y", "a", "z", "a", "k", "i", " ", "p", "a", "r", "t", " ", "n", "u", "m", "b", "e", "r">>,
           <<"Y", "A", "Z", "A", "K", "I", " ", "P", "N">>,
           <<"y", "a", "z", "a", "k", "i", " ", "p", "n">>,
           <<"Y", "a", "z", "a", "k", "i", " ", "P", "N">>,
           <<"P", "/", "N">>,
           <<"P", "a", "r", "t", " ", "N", "o">>,
           <<"P", "a", "r", "t", "_", "N", "o">>,
           <<"P", "a", "r", "t", "N", "o">>,
           <<"C", "o", "m", "p", "o", "n", "e", "n", "t">>,
           <<"C", "o", "m", "p", "o", "n", "e", "n", "t", "_", "N", "u", "m", "b", "e", "r">>,
           <<"R", "e", "f", "e", "r", "e", "n", "c", "e">> >>,
      Project |->
        << <<"P", "r", "o", "j", "e", "c", "t">>,
           <<"P", "R", "O", "J", "E", "C", "T">>,
           <<"p", "r", "o", "j", "e", "c", "t">>,
           <<"B", "O", "M", " ", "A", "s", " ", "F", "i", "l", "t", "e", "r">>,
           <<"B", "O", "M", "_", "A", "s", "_", "F", "i", "l", "t", "e", "r">>,
           <<"B", "O", "M", "A", "s", "F", "i", "l", "t", "e", "r">>,
           <<"b", "o", "m", " ", "a", "s", " ", "f", "i", "l", "t", "e", "r">>,
           <<"B", "O", "M", " ", "A", "S", " ", "F", "I", "L", "T", "E", "R">>,
           <<"B", "O", "M", " ", "A", "S", "L", " ", "F", "I", "L", "T", "E", "R">>,
           <<"b", "o", "m", " ", "a", "s", "l", " ", "f", "i", "l", "t", "e", "r">>,
           <<"B", "o", "m", " ", "A", "s", "l", " ", "F", "i", "l", "t", "e", "r">>,
           <<"F", "i", "l", "t", "e", "r">>,
           <<"P", "r", "o", "j", "e", "c", "t", "_", "N", "a", "m", "e">>,
           <<"P", "r", "o", "j", "e", "c", "t", "N", "a", "m", "e">>,
           <<"P", "r", "o", "j", "e", "c", "t", " ", "N", "a", "m", "e">>,
           <<"A", "p", "p", "l", "i", "c", "a", "t", "i", "o", "n">>,
           <<"P", "r", "o", "g", "r", "a", "m">>,
           <<"M", "o", "d", "e", "l">> >>,
      Price |->
        << <<"P", "r", "i", "c", "e">>,
           <<"P", "R", "I", "C", "E">>,
           <<"p", "r", "i", "c", "e">>,
           <<"C", "o", "s", "t">>,
           <<"U", "n", "i", "t", "_", "P", "r", "i", "c", "e">>,
           <<"U", "n", "i", "t", " ", "P", "r", "i", "c", "e">>,
           <<"U", "n", "i", "t", "P", "r", "i", "c", "e">>,
           <<"A", "m", "o", "u", "n", "t">>,
           <<"V", "a", "l", "u", "e">> >>,
      Supplier |->
        << <<"S", "u", "p", "p", "l", "i", "e", "r">>,
           <<"S", "U", "P", "P", "L", "I", "E", "R">>,
           <<"s", "u", "p", "p", "l", "i", "e", "r">>,
           <<"V", "e", "n", "d", "o", "r">>,
           <<"M", "a", "n", "u", "f", "a", "c", "t", "u", "r", "e", "r">>,
           <<"S", "o", "u", "r", "c", "e">>,
           <<"P", "r", "o", "v", "i", "d", "e", "r">> >>,
      Description |->
        << <<"D", "e", "s", "c", "r", "i", "p", "t", "i", "o", "n">>,
           <<"D", "E", "S", "C", "R", "I", "P", "T", "I", "O", "N">>,
           <<"d", "e", "s", "c", "r", "i", "p", "t", "i", "o", "n">>,
           <<"D", "e", "s", "c">>,
           <<"C", "o", "m", "p", "o", "n", "e", "n", "t", "_", "D", "e", "s", "c", "r", "i", "p", "t", "i", "o", "n">>,
           <<"C", "o", "m", "p", "o", "n", "e", "n", "t", " ", "D", "e", "s", "c", "r", "i", "p", "t", "i", "o", "n">>,
           <<"P", "a", "r", "t", "_", "D", "e", "s", "c", "r", "i", "p", "t", "i", "o", "n">>,
           <<"P", "a", "r", "t", " ", "D", "e", "s", "c", "r", "i", "p", "t", "i", "o", "n">>,
           <<"D", "e", "t", "a", "i", "l", "s">>,
           <<"N", "a", "m", "e">> >>,
      Status |->
        << <<"S", "t", "a", "t", "u", "s">>,
           <<"S", "T", "A", "T", "U", "S">>,
           <<"s", "t", "a", "t", "u", "s">>,
           <<"S", "t", "a", "t", "e">>,
           <<"C", "o", "n", "d", "i", "t", "i", "o", "n">>,
           <<"P", "h", "a", "s", "e">> >> ]

\* str.strip() of a column name
strip(s) ==
    IF strip_is_empty(s) THEN <<>>
    ELSE LET first == CHOOSE i \in DOMAIN s :
                          s[i] # " " /\ \A j \in 1..(i - 1) : s[j] = " "
             last == CHOOSE i \in DOMAIN s :
                          s[i] # " " /\ \A j \in (i + 1)..Len(s) : s[j] = " "
         IN  SubSeq(s, first, last)

\* the characters normalize_column_name replaces by a space
Separators == {"_", "-", ".", "(", ")", "[", "]"}

\* re.sub(r'\s+', ' ', s): a run of spaces becomes one space
RECURSIVE collapse_spaces(_)
collapse_spaces(s) ==
    IF Len(s) <= 1 THEN s
    ELSE IF s[1] = " " /\ s[2] = " " THEN collapse_spaces(Tail(s))
    ELSE <<s[1]>> \o collapse_spaces(Tail(s))

\* normalize_column_name
normalize_column_name(column_name) ==
    IF column_name = <<>> THEN <<>>
    ELSE LET stripped == strip(column_name)
             spaced == [i \in DOMAIN stripped |->
                          IF stripped[i] \in Separators THEN " " ELSE stripped[i]]
         IN  strip(collapse_spaces(spaced))

\* possible_name.lower() of every accepted spelling
lowered_names ==
    [target_column \in DOMAIN column_mappings |->
        [k \in DOMAIN column_mappings[target_column] |->
            lower(column_mappings[target_column][k])]]

\* normalize_column_name(possible_name).lower() of every accepted spelling
normalized_names ==
    [target_column \in DOMAIN column_mappings |->
        [k \in DOMAIN column_mappings[target_column] |->
            lower(normalize_column_name(column_mappings[target_column][k]))]]

\* the four tests of find_column_match, by priority level: an available
\* column passes the test of a level for some accepted spelling
column_matches(level, available_col, target_column) ==
    CASE level = 1 ->
            \E k \in DOMAIN column_mappings[target_column] :
                available_col = column_mappings[target_column][k]
      [] level = 2 ->
            LET lowered_available == lower(available_col)
            IN  \E k \in DOMAIN lowered_names[target_column] :
                    lowered_available = lowered_names[target_column][k]
      [] level = 3 ->
            LET normalized_available == lower(normalize_column_name(available_col))
            IN  \E k \in DOMAIN normalized_names[target_column] :
                    normalized_available = normalized_names[target_column][k]
      [] level = 4 ->
            LET normalized_available == lower(normalize_column_name(available_col))
            IN  \E k \in DOMAIN normalized_names[target_column] :
                    \/ contains(normalized_available, normalized_names[target_column][k])
                    \/ contains(normalized_names[target_column][k], normalized_available)

\* find_column_match found nothing
NoColumn == [found |-> FALSE, col |-> <<>>]

\* mutant of find_column_match: one pass over the columns, every test tried
\* on each column
find_column_match_single_pass(target_column, available) ==
    IF target_column \notin DOMAIN column_mappings THEN NoColumn
    ELSE LET hits == {i \in DOMAIN available :
                         \E level \in 1..4 :
                             column_matches(level, available[i], target_column)}
         IN  IF hits = {} THEN NoColumn
             ELSE [found |-> TRUE,
                   col |-> available[CHOOSE i \in hits : \A j \in hits : i <= j]]

\* one loop of find_column_match: the first available column passing the
\* test of the level
first_match(level, available, target_column) ==
    LET hits == {i \in DOMAIN available :
                    column_matches(level, available[i], target_column)}
    IN  IF hits = {} THEN NoColumn
        ELSE [found |-> TRUE,
              col |-> available[CHOOSE i \in hits : \A j \in hits : i <= j]]

\* find_column_match: four loops in sequence, the first hit is returned
find_column_match(target_column, available) ==
    IF target_column \notin DOMAIN column_mappings THEN NoColumn
    ELSE LET exact == first_match(1, available, target_column)
             lowered == first_match(2, available, target_column)
             normalized == first_match(3, available, target_column)
             partial == first_match(4, available, target_column)
         IN  IF exact.found THEN exact
             ELSE IF lowered.found THEN lowered
             ELSE IF normalized.found THEN normalized
             ELSE partial

\* header names a file may carry
HeaderUniverse ==
    { <<"P", "N">>, <<"p", "n">>, <<"P", "a", "r", "t", "-", "N", "o">>,
      <<"R", "e", "f">>,
      <<"P", "r", "o", "j", "e", "c", "t">>, <<"F", "I", "L", "T", "E", "R">>,
      <<"P", "r", "o", "j", "e", "c", "t", ".", "N", "a", "m", "e">>,
      <<"P", "r", "o", "j">>,
      <<"Q", "t", "y">>, <<"_">> }

\* the column_type arguments: two standard columns and an unknown one
ColumnTypes == {"PN", "Project", "Quantity"}

\* no LookupProcessor method is called
LookupIdle ==
    /\ frames = [id \in {"input_df", "master_bom"} |-> [cols |-> <<>>, rows |-> <<>>]]
    /\ master_before = [cols |-> <<>>, rows |-> <<>>]
    /\ project_column = None
    /\ pc = "start"
    /\ error = None
    /\ lookup_df = None
    /\ processed_df = None
    /\ updated_master_bom = None
    /\ processing_stats = ZeroStats
    /\ additional_rows = <<>>
    /\ validation = NotValidated

InitMapper ==
    /\ available_columns \in SeqsUpTo(HeaderUniverse, MaxHeaders)
    /\ column_type \in ColumnTypes
    /\ column_match = [done |-> FALSE]
    /\ LookupIdle
    /\ EnhancedIdle
    /\ CleanerIdle
    /\ PipelineIdle
    /\ RunsIdle

\* column_match = find_column_match(column_type, available_columns)
FindColumnMatch ==
    /\ ~column_match.done
    /\ LET r == find_column_match(column_type, available_columns)
       IN  column_match' = [done |-> TRUE, found |-> r.found, col |-> r.col]
    /\ UNCHANGED <<available_columns, column_type>>
    /\ UNCHANGED <<lookup_vars, enhanced_vars, cleaner_vars, pipeline_vars, runs_vars>>

NextMapper == FindColumnMatch

SpecMapper == InitMapper /\ [][NextMapper]_vars

\* the lowest level at which a column passes the test for the requested
\* standard column, 5 when it passes none
MatchLevel(col) ==
    LET levels == {level \in 1..4 : column_matches(level, col, column_type)}
    IN  IF levels = {} THEN 5
        ELSE CHOOSE level \in levels : \A other \in levels : level <= other

\* C21: find_column_match returns None for an unknown standard column and
\* when no available column passes any of the four tests; otherwise it
\* returns the first, in the order of available_columns, of the columns
\* whose lowest passing level is the lowest over all available columns.
C21_PriorityLevels ==
    column_match.done =>
        IF column_type \notin DOMAIN column_mappings
        THEN ~column_match.found
        ELSE LET n == Len(available_columns)
                 best == {i \in 1..n :
                             /\ MatchLevel(available_columns[i]) <= 4
                             /\ \A j \in 1..n :
                                   MatchLevel(available_columns[i])
                                      <= MatchLevel(available_columns[j])}
             IN  IF best = {} THEN ~column_match.found
                 ELSE /\ column_match.found
                      /\ column_match.col
                            = available_columns[CHOOSE i \in best :
                                                    \A j \in best : i <= j]

\* a column passing only the substring test stands before an exact spelling,
\* and the exact spelling is returned
C21_Witness ==
    /\ column_match.done
    /\ column_type = "PN"
    /\ available_columns = << <<"R", "e", "f">>, <<"P", "N">> >>
    /\ column_match.found
    /\ column_match.col = <<"P", "N">>

\* ------------------------------------------------------------------------
\* DataCleaner (src/data_handlers/data_cleaner.py) and the row checks of
\* DataValidator (src/utils/validators.py).  The string functions are given
\* by their values on the cell values of the model.
\* ------------------------------------------------------------------------
MaxDirty == 2

\* config['required_columns']
RequiredColumns == <<"PN", "Project">>

\* config['text_columns']
TextColumns == <<"PN", "Project", "Supplier", "Description">>

\* str.strip()
str_strip(s) ==
    CASE s = " r1 " -> "r1"
      [] s = " D" -> "D"
      [] OTHER -> s

\* re.sub(r'\s+', ' ', s)
normalize_spaces(s) ==
    CASE s = "c  2" -> "c 2"
      [] OTHER -> s

\* encode('ascii', 'ignore').decode('ascii')
ascii_ignore(s) ==
    CASE s = "RÉ1" -> "R1"
      [] OTHER -> s

\* _normalize_text
normalize_text(text) ==
    IF pd_isna(text) \/ text = "nan" \/ text = "" THEN ""
    ELSE str_strip(normalize_spaces(ascii_ignore(text)))

\* the steps _clean_text_columns applies to one cell, in order
text_steps(v) ==
    LET as_str == astype_str(v)
        replaced == IF as_str = "nan" THEN "" ELSE as_str
        trimmed == str_strip(replaced)
        spaced == normalize_spaces(trimmed)
        uppered == str_upper(spaced)
        normalized == normalize_text(uppered)
    IN  [replaced |-> replaced, trimmed |-> trimmed, spaced |-> spaced,
         uppered |-> uppered, normalized |-> normalized]

\* pd.to_numeric(errors='coerce') followed by round(2), on a Price cell
normalize_price(v) ==
    CASE pd_isna(v) -> NaN
      [] v = "0.05" -> "0.05"
      [] v = "0.055" -> "0.06"
      [] v = "-1" -> "-1.0"
      [] v = "20000" -> "20000.0"
      [] OTHER -> NaN

\* astype(str).str.strip().str.upper(), 'NAN' replaced by NaN, on a Status cell
normalize_status(v) ==
    LET s == str_upper(str_strip(astype_str(v)))
    IN  IF s = "NAN" THEN NaN ELSE s

\* a normalized price in cents
price_cents(v) ==
    CASE v = "0.05" -> 5
      [] v = "0.06" -> 6
      [] v = "-1.0" -> 0 - 100
      [] v = "20000.0" -> 2000000

\* config['price_min'] and config['price_max'], in cents
PriceMinCents == 0
PriceMaxCents == 1000000

\* the cleaned part numbers that match config['pn_pattern']
PnPatternMatches == {"R1", "C2"}

\* validate_part_number: the error, or "" when the part number is valid
validate_part_number(pn) ==
    IF pd_isna(pn) \/ pn = "" THEN "Numéro de pièce manquant"
    ELSE IF str_strip(pn) = "" THEN "Numéro de pièce vide"
    ELSE IF str_strip(pn) \notin PnPatternMatches
         THEN "Format de numéro de pièce invalide"
    ELSE ""

\* validate_project
validate_project(project) ==
    IF pd_isna(project) \/ project = "" THEN "Nom de projet manquant"
    ELSE IF str_strip(project) = "" THEN "Nom de projet vide"
    ELSE ""

\* validate_price
validate_price(price) ==
    IF pd_isna(price) THEN ""
    ELSE IF price_cents(price) < PriceMinCents THEN "Prix trop bas (min: 0.0)"
    ELSE IF price_cents(price) > PriceMaxCents THEN "Prix trop élevé (max: 10000.0)"
    ELSE ""

\* config['valid_statuses']
ValidStatuses == {"A", "D", "0", "X"}

\* validate_status
validate_status(status) ==
    IF pd_isna(status) THEN ""
    ELSE IF str_upper(str_strip(status)) \in ValidStatuses THEN ""
    ELSE "Statut invalide. Valeurs acceptées: ['A', 'D', '0', 'X']"

\* validate_row: the errors of a row, in the order of the checks
validate_row(row) ==
    LET pn_error == validate_part_number(IF "PN" \in DOMAIN row THEN row["PN"] ELSE NaN)
        project_error ==
            validate_project(IF "Project" \in DOMAIN row THEN row["Project"] ELSE NaN)
        price_error == IF "Price" \in DOMAIN row THEN validate_price(row["Price"]) ELSE ""
        status_error ==
            IF "Status" \in DOMAIN row THEN validate_status(row["Status"]) ELSE ""
    IN  (IF pn_error = "" THEN <<>> ELSE <<"PN: " \o pn_error>>)
        \o (IF project_error = "" THEN <<>> ELSE <<"Project: " \o project_error>>)
        \o (IF price_error = "" THEN <<>> ELSE <<"Price: " \o price_error>>)
        \o (IF status_error = "" THEN <<>> ELSE <<"Status: " \o status_error>>)

\* '; '.join(errors)
RECURSIVE join_errors(_)
join_errors(errors) ==
    IF errors = <<>> THEN ""
    ELSE IF Len(errors) = 1 THEN errors[1]
    ELSE errors[1] \o "; " \o join_errors(Tail(errors))

\* a row as the record kept in self.excluded_rows
excluded_record(row, reason) ==
    [x \in DOMAIN row \cup {"exclusion_reason"} |->
        IF x = "exclusion_reason" THEN reason ELSE row[x]]

\* the rows of a sequence that pass a test, in order
RECURSIVE rows_where(_, _)
rows_where(rows, keep) ==
    IF rows = <<>> THEN <<>>
    ELSE (IF keep[1] THEN <<rows[1]>> ELSE <<>>)
         \o rows_where(Tail(rows), Tail(keep))

\* _remove_empty_rows: dropna(how='all')
remove_empty_rows(rows) ==
    rows_where(rows, [i \in DOMAIN rows |->
                         \E x \in DOMAIN rows[i] : ~pd_isna(rows[i][x])])

\* the mask of _handle_missing_critical_values
missing_mask(rows) ==
    [i \in DOMAIN rows |-> pd_isna(rows[i]["PN"]) \/ pd_isna(rows[i]["Project"])]

\* _clean_text_columns and _normalize_formats on one row
clean_row(row) ==
    [x \in DOMAIN row |->
        IF \E k \in DOMAIN TextColumns : TextColumns[k] = x
            THEN text_steps(row[x]).normalized
        ELSE IF x = "Price" THEN normalize_price(row[x])
        ELSE IF x = "Status" THEN normalize_status(row[x])
        ELSE row[x]]

\* the cells of the text columns of a table, as a sequence
RECURSIVE text_cells(_)
text_cells(rows) ==
    IF rows = <<>> THEN <<>>
    ELSE LET row == rows[1]
             cells == [k \in DOMAIN TextColumns |->
                          IF TextColumns[k] \in DOMAIN row
                          THEN <<row[TextColumns[k]]>> ELSE <<>>]
         IN  cells[1] \o cells[2] \o cells[3] \o cells[4] \o text_cells(Tail(rows))

\* clean_dataframe: the cleaned table, the statistics and the excluded rows
\* it leaves in the DataCleaner
clean_dataframe(df) ==
    IF ~({"PN", "Project"} \subseteq ColSet(df))
    THEN [ok |-> FALSE, err |-> "KeyError: required column",
          df |-> df,
          stats |-> [ZeroCleaningStats EXCEPT !.original_rows = NRows(df)],
          excluded |-> <<>>]
    ELSE LET non_empty == remove_empty_rows(df.rows)
             mask == missing_mask(non_empty)
             missing == rows_where(non_empty, mask)
             present == rows_where(non_empty, [i \in DOMAIN mask |-> ~mask[i]])
             cells == text_cells(present)
             cleaned == [i \in DOMAIN present |-> clean_row(present[i])]
             valid == [i \in DOMAIN cleaned |-> validate_row(cleaned[i]) = <<>>]
             invalid == rows_where(cleaned, [i \in DOMAIN valid |-> ~valid[i]])
             kept == rows_where(cleaned, valid)
         IN  [ok |-> TRUE, err |-> None,
              df |-> [cols |-> df.cols, rows |-> kept],
              stats |->
                 [original_rows |-> NRows(df),
                  cleaned_rows |-> Len(kept),
                  excluded_rows |-> NRows(df) - Len(kept),
                  trimmed_values |->
                     Cardinality({k \in DOMAIN cells :
                        text_steps(cells[k]).replaced # text_steps(cells[k]).trimmed}),
                  case_corrections |->
                     Cardinality({k \in DOMAIN cells :
                        text_steps(cells[k]).spaced # text_steps(cells[k]).uppered}),
                  normalized_values |->
                     Cardinality({k \in DOMAIN cells :
                        text_steps(cells[k]).uppered # text_steps(cells[k]).normalized})],
              excluded |->
                 [i \in DOMAIN missing |->
                     excluded_record(missing[i], "Valeurs critiques manquantes")]
                 \o [i \in DOMAIN invalid |->
                        excluded_record(invalid[i],
                                        join_errors(validate_row(invalid[i])))]]

\* rows of a sheet given to the DataCleaner, as (PN, Project, Price)
DirtyRowUniverse ==
    { <<"R1", "D", "0.05">>, <<" r1 ", "d", "0.055">>, <<NaN, NaN, NaN>>,
      <<NaN, "D", "0.05">>, <<"R1", NaN, "0.05">>, <<"", "D", "0.05">>,
      <<"R#1", "D", "0.05">>, <<"R1", "D", "-1">>, <<"RÉ1", "0", "abc">>,
      <<"c  2", "X", NaN>> }

\* a table with the columns PN, Project, Price
PricedTable(rs) ==
    [cols |-> <<"PN", "Project", "Price">>,
     rows |-> [i \in DOMAIN rs |->
                 [PN |-> rs[i][1], Project |-> rs[i][2], Price |-> rs[i][3]]]]

DirtyTables == {PricedTable(rs) : rs \in SeqsUpTo(DirtyRowUniverse, MaxDirty)}

InitCleaner ==
    /\ dirty_df \in DirtyTables
    /\ cleaned_df = [cols |-> <<>>, rows |-> <<>>]
    /\ cleaning_stats = ZeroCleaningStats
    /\ excluded_rows = <<>>
    /\ frames = [id \in {"input_df", "master_bom"} |-> [cols |-> <<>>, rows |-> <<>>]]
    /\ master_before = [cols |-> <<>>, rows |-> <<>>]
    /\ project_column = None
    /\ pc = "loaded"
    /\ error = None
    /\ lookup_df = None
    /\ processed_df = None
    /\ updated_master_bom = None
    /\ processing_stats = ZeroStats
    /\ additional_rows = <<>>
    /\ validation = NotValidated
    /\ EnhancedIdle
    /\ MapperIdle
    /\ PipelineIdle
    /\ RunsIdle

\* cleaned_df = self.data_cleaner.clean_dataframe(input_df); the cleaned
\* table is the input_df argument of perform_lookup
CleanData ==
    /\ pc = "loaded"
    /\ LET r == clean_dataframe(dirty_df)
       IN  /\ cleaning_stats' = r.stats
           /\ excluded_rows' = r.excluded
           /\ IF r.ok
              THEN /\ cleaned_df' = r.df
                   /\ frames' = [frames EXCEPT !["input_df"] = r.df]
                   /\ pc' = "cleaned"
                   /\ error' = error
              ELSE /\ pc' = "failed"
                   /\ error' = r.err
                   /\ UNCHANGED <<cleaned_df, frames>>
    /\ UNCHANGED <<project_column, lookup_df, processed_df, updated_master_bom,
                   processing_stats, additional_rows, validation, master_before>>
    /\ UNCHANGED <<dirty_df, enhanced_vars, mapper_vars, pipeline_vars, runs_vars>>

NextCleaner == CleanData

SpecCleaner == InitCleaner /\ [][NextCleaner]_vars

\* C27: after clean_dataframe, cleaned_rows + excluded_rows = original_rows,
\* and the excluded-rows list holds one entry, with an exclusion_reason, for
\* every row of the input that is not in the cleaned table: its length is
\* the excluded_rows statistic.
C27_ExclusionAccounting ==
    pc = "cleaned" =>
        /\ cleaning_stats.original_rows = NRows(dirty_df)
        /\ cleaning_stats.cleaned_rows = NRows(cleaned_df)
        /\ cleaning_stats.cleaned_rows + cleaning_stats.excluded_rows
              = cleaning_stats.original_rows
        /\ \A k \in DOMAIN excluded_rows : "exclusion_reason" \in DOMAIN excluded_rows[k]
        /\ Len(excluded_rows) = cleaning_stats.excluded_rows

\* ------------------------------------------------------------------------
\* ComponentDataProcessor.process_file (src/component_processor/processor.py):
\* _load_data, _clean_data, _process_lookup, _generate_outputs
\* ------------------------------------------------------------------------
MaxSheetRows == 2

\* the standard columns, in the order of the keys of column_mappings
StandardColumns == <<"PN", "Project", "Price", "Supplier", "Description", "Status">>

\* a value find_column_match returned is truthy: not None and not ''
truthy(m) == m.found /\ m.col # <<>>

\* the required columns that find_column_match does not resolve
missing_columns(available) ==
    (IF truthy(find_column_match("PN", available)) THEN <<>> ELSE <<"PN">>)
    \o (IF truthy(find_column_match("Project", available)) THEN <<>> ELSE <<"Project">>)

\* mutant of validate_required_columns: the headers are always accepted
validate_required_columns_accepting(available) ==
    [is_valid |-> TRUE, missing |-> missing_columns(available)]

\* validate_required_columns
validate_required_columns(available) ==
    [is_valid |-> Len(missing_columns(available)) = 0,
     missing |-> missing_columns(available)]

\* the name of a column as a string
RECURSIVE header_name(_)
header_name(h) == IF h = <<>> THEN "" ELSE h[1] \o header_name(Tail(h))

\* map_columns: what find_column_match returns for every standard column
map_columns(available) ==
    [target_column \in DOMAIN column_mappings |->
        find_column_match(target_column, available)]

\* rename_dict of _load_data: the standard column a header is renamed to
\* by the mapping of the required columns, Project overriding PN; "" when
\* none
required_rename(h, mapping) ==
    IF truthy(mapping["Project"]) /\ mapping["Project"].col = h THEN "Project"
    ELSE IF truthy(mapping["PN"]) /\ mapping["PN"].col = h THEN "PN"
    ELSE ""

\* optional_rename of _load_data: the last optional standard column that
\* map_columns resolves to the header; "" when none or when the header is
\* already renamed
optional_rename(h, mapping) ==
    LET hits == {k \in 3..Len(StandardColumns) :
                    /\ truthy(mapping[StandardColumns[k]])
                    /\ mapping[StandardColumns[k]].col = h
                    /\ required_rename(h, mapping) = ""}
    IN  IF hits = {} THEN ""
        ELSE StandardColumns[CHOOSE k \in hits : \A j \in hits : j <= k]

\* the column names of input_df after the two renames of _load_data
renamed_columns(available) ==
    CHOOSE names \in
        { [i \in DOMAIN available |->
              IF required_rename(available[i], mapping) # ""
                  THEN required_rename(available[i], mapping)
              ELSE IF optional_rename(available[i], mapping) # ""
                  THEN optional_rename(available[i], mapping)
              ELSE header_name(available[i])] :
          mapping \in {map_columns(available)} } : TRUE

\* the sheet read by read_excel_file, with its columns renamed
renamed_table(sheet) ==
    CHOOSE df \in
        { [cols |-> names,
           rows |-> [i \in DOMAIN sheet.rows |->
                       [c \in {names[k] : k \in DOMAIN names} |->
                           sheet.rows[i][CHOOSE k \in DOMAIN names : names[k] = c]]]] :
          names \in {renamed_columns(sheet.headers)} } : TRUE

\* the header rows of the supplier sheets
SheetHeaders ==
    { << <<"P", "N">>, <<"P", "r", "o", "j", "e", "c", "t">>,
         <<"P", "r", "i", "c", "e">> >>,
      << <<"P", "a", "r", "t", "-", "N", "o">>, <<"F", "I", "L", "T", "E", "R">>,
         <<"C", "o", "s", "t">> >>,
      << <<"R", "e", "f">>, <<"P", "r", "o", "j">>, <<"P", "r", "i", "c", "e">> >>,
      << <<"P", "N">>, <<"Q", "t", "y">>, <<"P", "r", "i", "c", "e">> >>,
      << <<"Q", "t", "y">>, <<"P", "r", "o", "j", "e", "c", "t">>,
         <<"P", "r", "i", "c", "e">> >>,
      << <<"_">>, <<"P", "r", "o", "j", "e", "c", "t">>,
         <<"P", "r", "i", "c", "e">> >> }

\* the rows of the supplier sheets, cell by cell
SheetRowUniverse ==
    { <<"R1", "D", "0.05">>, <<" r1 ", "d", "0.055">>, <<"R1", "0", "0.05">>,
      <<NaN, NaN, NaN>>, <<"R1", NaN, "0.05">>, <<"C2", "X", NaN>> }

Sheets ==
    {[headers |-> h, rows |-> rs] :
        h \in SheetHeaders, rs \in SeqsUpTo(SheetRowUniverse, MaxSheetRows)}

\* the Master BOM files
MasterBomFiles ==
    { PlainCatalog(<<>>),
      PlainCatalog(<< <<"R1", "D", "D">> >>),
      KeyedCatalog(<< <<"R1", "D", "D">> >>, "pipe"),
      PlainCatalog(<< <<"R1", "0", "A">>, <<"C2", "X", "A">> >>),
      KeyedCatalog(<< <<"R1", "0", "A">>, <<"R1", "D", "A">> >>, "pipe") }

InitProcessFile ==
    /\ input_file \in Sheets
    /\ column_check = [done |-> FALSE]
    /\ written_tables = <<>>
    /\ process_result = "running"
    /\ \E master_bom \in MasterBomFiles :
          /\ frames = [id \in {"input_df", "master_bom"} |->
                          IF id = "master_bom" THEN master_bom
                          ELSE [cols |-> <<>>, rows |-> <<>>]]
          /\ master_before = master_bom
    /\ project_column = None
    /\ pc = "file"
    /\ error = None
    /\ lookup_df = None
    /\ processed_df = None
    /\ updated_master_bom = None
    /\ processing_stats = ZeroStats
    /\ additional_rows = <<>>
    /\ validation = NotValidated
    /\ EnhancedIdle
    /\ MapperIdle
    /\ CleanerIdle
    /\ RunsIdle

\* input_df, master_bom = self._load_data(input_file_path); process_file
\* returns False when either is None
LoadData ==
    /\ pc = "file"
    /\ process_result = "running"
    /\ \E check \in {validate_required_columns(input_file.headers)},
          bom \in {validate_master_bom(frames["master_bom"])} :
           /\ column_check' = [done |-> TRUE, is_valid |-> check.is_valid,
                               missing |-> check.missing]
           /\ IF ~check.is_valid
              THEN /\ error' = "ValueError: Colonnes obligatoires manquantes"
                   /\ pc' = "returned"
                   /\ process_result' = "False"
                   /\ UNCHANGED <<dirty_df, validation>>
              ELSE /\ dirty_df' = renamed_table(input_file)
                   /\ validation' = bom
                   /\ IF bom.is_valid
                      THEN /\ pc' = "loaded"
                           /\ UNCHANGED <<error, process_result>>
                      ELSE /\ error' = "Master BOM invalide"
                           /\ pc' = "returned"
                           /\ process_result' = "False"
    /\ UNCHANGED <<frames, project_column, lookup_df, processed_df,
                   updated_master_bom, processing_stats, additional_rows,
                   master_before>>
    /\ UNCHANGED <<cleaned_df, cleaning_stats, excluded_rows, input_file,
                   written_tables>>
    /\ UNCHANGED <<enhanced_vars, mapper_vars, runs_vars>>

\* pd.DataFrame(self.excluded_rows)
excluded_rows_dataframe ==
    [cols |-> IF excluded_rows = <<>> THEN <<>>
              ELSE Append(dirty_df.cols, "exclusion_reason"),
     rows |-> excluded_rows]

\* success = self._generate_outputs(processed_df, updated_master_bom)
GenerateOutputs ==
    /\ pc = "done"
    /\ process_result = "running"
    /\ written_tables' =
          << [file |-> "Update", table |-> frames[processed_df]],
             [file |-> "Master_BOM_Updated", table |-> frames[updated_master_bom]] >>
          \o (IF excluded_rows = <<>> THEN <<>>
              ELSE << [file |-> "Clean_Excluded", table |-> excluded_rows_dataframe] >>)
    /\ process_result' = "True"
    /\ pc' = "returned"
    /\ UNCHANGED <<frames, project_column, error, lookup_df, processed_df,
                   updated_master_bom, processing_stats, additional_rows,
                   validation, master_before>>
    /\ UNCHANGED <<cleaner_vars, input_file, column_check>>
    /\ UNCHANGED <<enhanced_vars, mapper_vars, runs_vars>>

\* an exception of a step is caught by process_file, which returns False
ReturnFalse ==
    /\ pc = "failed"
    /\ process_result = "running"
    /\ process_result' = "False"
    /\ pc' = "returned"
    /\ UNCHANGED <<frames, project_column, error, lookup_df, processed_df,
                   updated_master_bom, processing_stats, additional_rows,
                   validation, master_before>>
    /\ UNCHANGED <<cleaner_vars, input_file, column_check, written_tables>>
    /\ UNCHANGED <<enhanced_vars, mapper_vars, runs_vars>>

NextProcessFile ==
    \/ LoadData
    \/ CleanData
    \/ PerformLookup
    \/ ProcessLookupResults
    \/ GenerateOutputs
    \/ ReturnFalse

SpecProcessFile == InitProcessFile /\ [][NextProcessFile]_vars

\* the members of a list of column names
MissingSet == {column_check.missing[k] : k \in DOMAIN column_check.missing}

\* C22: validate_required_columns returns ok exactly when its missing list is
\* empty, the list names the required columns (PN, Project) that no header
\* resolves, and a run whose headers fail it returns False from process_file
\* with perform_lookup and process_lookup_results never called and no table
\* written.
C22_MissingColumnsStopRun ==
    column_check.done =>
        /\ column_check.is_valid <=> (column_check.missing = <<>>)
        /\ \A role \in {"PN", "Project"} :
              (role \in MissingSet)
                 <=> ~truthy(find_column_match(role, input_file.headers))
        /\ ~column_check.is_valid =>
              /\ process_result = "False"
              /\ pc = "returned"
              /\ lookup_df = None
              /\ processed_df = None
              /\ updated_master_bom = None
              /\ processing_stats = ZeroStats
              /\ additional_rows = <<>>
              /\ written_tables = <<>>

\* a sheet without a Project column was rejected
C22_Witness ==
    /\ column_check.done
    /\ ~column_check.is_valid
    /\ column_check.missing = <<"Project">>
    /\ input_file.rows # <<>>
    /\ process_result = "False"

\* C23: the table process_file hands to write_formatted_excel as the main
\* output has no lookup_key column.
C23_LookupKeyStripped ==
    process_result = "True" =>
        \A k \in DOMAIN written_tables :
            written_tables[k].file = "Update"
                => ~HasCol(written_tables[k].table, "lookup_key")

\* perform_lookup has been called in this run
LookupCalled ==
    pc \in {"looked_up", "done"} \/ (pc = "failed" /\ error # "Master BOM invalide")

\* C24: when the project column asked for is no column of the catalog and the
\* catalog has a column whose name contains 'project', perform_lookup returns
\* a table without raising, and the Status of an input row is the value of
\* that catalog column in the first catalog row of the input row's key (a
\* null value read as "0"), or null when the catalog has no row of that key.
C24_ProjectColumnResolved ==
    ( /\ LookupCalled
      /\ project_column # None
      /\ ~HasCol(master_before, project_column)
      /\ {"PN", "Project"} \subseteq ColSet(InputDf)
      /\ \E k \in DOMAIN master_before.cols :
            contains_project_or_ford(master_before.cols[k]) )
    => /\ lookup_df # None
       /\ error \notin LookupErrors
       /\ \A i \in DOMAIN InputDf.rows :
             LET resolved == resolve_master_project_col(master_before, project_column)
                 found == {j \in DOMAIN master_before.rows :
                              composite_key(master_before.rows[j]["PN"],
                                            master_before.rows[j][resolved])
                                 = composite_key(InputDf.rows[i]["PN"],
                                                 InputDf.rows[i]["Project"])}
                 status == LookupDf.rows[i]["Status"]
             IN  IF found # {}
                 THEN status = fillna(master_before.rows[First(found)][resolved], "0")
                 ELSE pd_isna(status)

\* the input rows whose PN or Project is null
NullKeyRows ==
    {i \in DOMAIN InputDf.rows :
        pd_isna(InputDf.rows[i]["PN"]) \/ pd_isna(InputDf.rows[i]["Project"])}

\* C25: an input row whose PN or Project is null gets a null Status from
\* perform_lookup and, in a completed run, exactly one synthetic row, tagged
\* Unknown_Added; a run whose input rows are all of that kind raises no
\* exception, whatever the catalog's rows are.
C25_NullKeyIsUnknown ==
    ( /\ LookupCalled
      /\ {"PN", "Project"} \subseteq ColSet(InputDf)
      /\ HasCol(master_before, requested_column(project_column))
      /\ NullKeyRows # {} )
    => /\ lookup_df # None
       /\ \A i \in NullKeyRows : pd_isna(LookupDf.rows[i]["Status"])
       /\ NullKeyRows = DOMAIN InputDf.rows => error = None
       /\ pc = "done" =>
             LET n == NRows(LookupDf)
                 routed == RoutedRows(LookupDf)
             IN  /\ NRows(ProcessedDf) = n + Len(routed)
                 /\ \A i \in NullKeyRows :
                       /\ Cardinality({k \in DOMAIN routed : routed[k] = i}) = 1
                       /\ \A k \in DOMAIN routed :
                             routed[k] = i
                                => ProcessedDf.rows[n + k]["Action"] = "Unknown_Added"

\* ------------------------------------------------------------------------
\* Several runs of one LookupProcessor instance, one after the other: the
\* caller calls perform_lookup and process_lookup_results on a pair of
\* tables, reads the statistics, and calls them again on the next pair
\* ------------------------------------------------------------------------
MaxRuns == 2
MaxRunRows == 2

\* the input tables of the runs
RunInputTables ==
    {[cols |-> <<"PN", "Project", "Price">>,
      rows |-> [i \in DOMAIN rs |->
                  [PN |-> rs[i][1], Project |-> rs[i][2], Price |-> "0.05"]]] :
        rs \in SeqsUpTo(InputRowUniverse, MaxRunRows)}

\* the catalogs of the runs
RunCatalogs ==
    {KeyedCatalog(<<<<"R1", "D", "D">>, <<"R1", "0", "A">>>>, "pipe"),
     KeyedCatalog(<<<<"C2", "X", "A">>>>, "pipe"),
     PlainCatalog(<<<<"R1", "D", "D">>>>)}

InitRuns ==
    /\ \E input_df \in RunInputTables, master_bom \in RunCatalogs :
          /\ frames = [id \in {"input_df", "master_bom"} |->
                          IF id = "input_df" THEN input_df ELSE master_bom]
          /\ master_before = master_bom
    /\ project_column = None
    /\ pc = "start"
    /\ error = None
    /\ lookup_df = None
    /\ processed_df = None
    /\ updated_master_bom = None
    /\ processing_stats = ZeroStats
    /\ additional_rows = <<>>
    /\ validation = NotValidated
    /\ EnhancedIdle
    /\ ExtensionIdle

\* get_processing_statistics: a copy of the counters
get_processing_statistics(stats) == [key \in DOMAIN stats |-> stats[key]]

\* the caller reads the statistics of the run that ended and begins the next
\* run on the same instance with new tables; nothing of the instance is
\* touched between the two runs
StartRun ==
    /\ pc \in {"done", "failed"}
    /\ run_number < MaxRuns
    /\ previous_stats' = get_processing_statistics(processing_stats)
    /\ run_number' = run_number + 1
    /\ \E input_df \in RunInputTables, master_bom \in RunCatalogs :
          /\ frames' = [id \in {"input_df", "master_bom"} |->
                           IF id = "input_df" THEN input_df ELSE master_bom]
          /\ master_before' = master_bom
    /\ pc' = "start"
    /\ error' = None
    /\ lookup_df' = None
    /\ processed_df' = None
    /\ updated_master_bom' = None
    /\ UNCHANGED <<project_column, processing_stats, additional_rows, validation>>
    /\ UNCHANGED <<enhanced_vars, mapper_vars, cleaner_vars, pipeline_vars, runs>>

NextRuns == StartRun \/ PerformLookup \/ ProcessLookupResults

SpecRuns == InitRuns /\ [][NextRuns]_vars

\* what a fresh instance returns and counts on the two tables
fresh_run(input_df, master_bom, pcol) ==
    LET looked == perform_lookup(input_df, master_bom, pcol)
    IN  {[looked |-> looked,
          classified |->
             process_lookup_results(looked.df, master_bom,
                 [ZeroStats EXCEPT !.lookup_matches = looked.lookup_matches,
                                   !.lookup_misses = looked.lookup_misses])]}

\* C26: in a sequence of runs on one instance, the statistics and the
\* synthetic rows of a complete run are those a fresh instance produces on
\* that run's tables alone, whatever the runs before it were
C26_SequentialRunsIndependent ==
    pc = "done" =>
        \A fresh \in fresh_run(frames["input_df"], master_before, project_column) :
            /\ fresh.looked.ok
            /\ fresh.classified.st.err = None
            /\ processing_stats = fresh.classified.st.stats
            /\ additional_rows = fresh.classified.st.additional_rows
            /\ frames[processed_df] = fresh.classified.result

C26_Witness ==
    /\ pc = "done"
    /\ run_number = 2
    /\ previous_stats.status_0_duplicates > 0
    /\ previous_stats.status_d_updates > 0
    /\ processing_stats.status_0_duplicates = 0
    /\ processing_stats.status_nan_unknowns = 2
    /\ Len(additional_rows) = 2

\* ------------------------------------------------------------------------
\* Two runs, A and B, on one LookupProcessor instance, their steps
\* interleaved: lookup A, lookup B, classify A, classify B.  Each run keeps
\* its own tables; self.processing_stats and self.additional_rows belong to
\* the instance
\* ------------------------------------------------------------------------
RunNames == {"A", "B"}

EmptyTable == [cols |-> <<>>, rows |-> <<>>]

\* a run that has its two tables and has called nothing yet
NewRun(input_df, master_bom) ==
    [input_df |-> input_df, master_bom |-> master_bom,
     master_before |-> master_bom, stage |-> "new",
     lookup_df |-> EmptyTable, processed_df |-> EmptyTable,
     statistics |-> ZeroStats]

InitInterleaved ==
    /\ \E input_a \in RunInputTables, master_a \in RunCatalogs,
          input_b \in RunInputTables, master_b \in RunCatalogs :
          runs = [r \in RunNames |-> IF r = "A" THEN NewRun(input_a, master_a)
                                     ELSE NewRun(input_b, master_b)]
    /\ run_number = 1
    /\ previous_stats = ZeroStats
    /\ processing_stats = ZeroStats
    /\ additional_rows = <<>>
    /\ frames = <<>>
    /\ master_before = EmptyTable
    /\ project_column = None
    /\ pc = "shared"
    /\ error = None
    /\ lookup_df = None
    /\ processed_df = None
    /\ updated_master_bom = None
    /\ validation = NotValidated
    /\ EnhancedIdle
    /\ MapperIdle
    /\ CleanerIdle
    /\ PipelineIdle

\* perform_lookup of run r: A first, then B while A holds its lookup table
LookupRun(r) ==
    /\ runs[r].stage = "new"
    /\ r = "B" => runs["A"].stage = "looked_up"
    /\ \E looked \in {perform_lookup(runs[r].input_df, runs[r].master_bom,
                                     project_column)} :
          IF looked.ok
          THEN /\ processing_stats' = [reset_stats(processing_stats) EXCEPT
                                         !.lookup_matches = looked.lookup_matches,
                                         !.lookup_misses = looked.lookup_misses]
               /\ runs' = [runs EXCEPT ![r].stage = "looked_up",
                                       ![r].lookup_df = looked.df]
               /\ error' = error
          ELSE /\ processing_stats' = reset_stats(processing_stats)
               /\ runs' = [runs EXCEPT ![r].stage = "failed"]
               /\ error' = looked.err
    /\ additional_rows' = <<>>
    /\ UNCHANGED <<frames, master_before, project_column, pc, lookup_df,
                   processed_df, updated_master_bom, validation>>
    /\ UNCHANGED <<run_number, previous_stats>>
    /\ UNCHANGED <<enhanced_vars, mapper_vars, cleaner_vars, pipeline_vars>>

\* process_lookup_results of run r, followed by get_processing_statistics:
\* A once B has its lookup table, B once A has ended
ClassifyRun(r) ==
    /\ runs[r].stage = "looked_up"
    /\ r = "A" => runs["B"].stage = "looked_up"
    /\ r = "B" => runs["A"].stage \in {"done", "failed"}
    /\ \E classified \in {process_lookup_results(runs[r].lookup_df,
                                                 runs[r].master_bom,
                                                 processing_stats)} :
          /\ processing_stats' = classified.st.stats
          /\ additional_rows' = classified.st.additional_rows
          /\ IF classified.st.err # None
             THEN /\ runs' = [runs EXCEPT
                                ![r].stage = "failed",
                                ![r].lookup_df = classified.st.df,
                                ![r].master_bom = classified.st.master_bom]
                  /\ error' = classified.st.err
             ELSE /\ runs' = [runs EXCEPT
                                ![r].stage = "done",
                                ![r].lookup_df = classified.st.df,
                                ![r].master_bom = classified.st.master_bom,
                                ![r].processed_df = classified.result,
                                ![r].statistics =
                                    get_processing_statistics(classified.st.stats)]
                  /\ error' = error
    /\ UNCHANGED <<frames, master_before, project_column, pc, lookup_df,
                   processed_df, updated_master_bom, validation>>
    /\ UNCHANGED <<run_number, previous_stats>>
    /\ UNCHANGED <<enhanced_vars, mapper_vars, cleaner_vars, pipeline_vars>>

NextInterleaved == \E r \in RunNames : LookupRun(r) \/ ClassifyRun(r)

SpecInterleaved == InitInterleaved /\ [][NextInterleaved]_vars

\* C28: when the steps of two runs on one instance interleave, the
\* statistics read after each run count only that run's rows, and its output
\* is the one a fresh instance produces on that run's tables
C28_InterleavedRunsIndependent ==
    \A r \in RunNames :
        runs[r].stage = "done" =>
            \A fresh \in fresh_run(runs[r].input_df, runs[r].master_before,
                                   project_column) :
                /\ runs[r].statistics = fresh.classified.st.stats
                /\ runs[r].processed_df = fresh.classified.result

\* the number of rows of a table whose Action is a given value
ActionCount(df, action) ==
    Cardinality({i \in DOMAIN df.rows : df.rows[i]["Action"] = action})

\* C30: after perform_lookup and process_lookup_results, total_processed is
\* the number of input rows and the four branch counters are the numbers of
\* output rows tagged Updated, Duplicate_Added, Unknown_Added and Skipped, so
\* that their sum does not exceed total_processed
C30_CounterConsistency ==
    pc = "done" =>
        /\ processing_stats.total_processed = NRows(InputDf)
        /\ processing_stats.status_d_updates = ActionCount(ProcessedDf, "Updated")
        /\ processing_stats.status_0_duplicates
             = ActionCount(ProcessedDf, "Duplicate_Added")
        /\ processing_stats.status_nan_unknowns
             = ActionCount(ProcessedDf, "Unknown_Added")
        /\ processing_stats.status_x_skipped = ActionCount(ProcessedDf, "Skipped")
        /\ processing_stats.status_d_updates + processing_stats.status_0_duplicates
           + processing_stats.status_nan_unknowns + processing_stats.status_x_skipped
             <= processing_stats.total_processed

\* a completed run that counted a skipped row and an added row
C30_Witness ==
    /\ pc = "done"
    /\ processing_stats.total_processed = 2
    /\ processing_stats.status_x_skipped = 1
    /\ processing_stats.status_nan_unknowns = 1
    /\ ActionCount(ProcessedDf, "Skipped") = 1
    /\ NRows(ProcessedDf) = 3

\* the pairs of rows of the lookup table that share a composite key and to
\* which perform_lookup gave the status D
SharedDeprecatedPairs ==
    {p \in (DOMAIN LookupDf.rows) \X (DOMAIN LookupDf.rows) :
        /\ p[1] < p[2]
        /\ LookupDf.rows[p[1]]["lookup_key"] = LookupDf.rows[p[2]]["lookup_key"]
        /\ str_upper(astype_str(LookupDf.rows[p[1]]["Status"])) = "D"
        /\ str_upper(astype_str(LookupDf.rows[p[2]]["Status"])) = "D"}

\* C29: the Status of a row is the one perform_lookup fetched, not re-read
\* from the catalog: when two input rows share a composite key of status D,
\* classification ends with both tagged Updated and both counted in
\* status_d_updates, although the first rewrote the catalog entry to X
C29_StatusFixedBeforeClassification ==
    (pc \in {"done", "failed"} /\ lookup_df # None) =>
        \A p \in SharedDeprecatedPairs :
            /\ pc = "done"
            /\ ProcessedDf.rows[p[1]]["Action"] = "Updated"
            /\ ProcessedDf.rows[p[2]]["Action"] = "Updated"
            /\ processing_stats.status_d_updates >= 2

====
